---- MODULE Spec2Model ----
(***************************************************************************)
(* Model of the agentsdk core: the per-agent engine (pkg/agent), with the  *)
(* permission manager (pkg/core/permission.go) whose policy it is meant to *)
(* apply, the Store contract it persists to and the events it emits.       *)
(***************************************************************************)
EXTENDS Integers, Sequences, FiniteSets, TLC

(* ------------------------------ bounds -------------------------------- *)

\* number of Send calls the clients make (Chat's own Send included)
MaxSends == 2

\* number of provider.Stream calls over the whole run
MaxModelCalls == 2

\* number of content blocks in one assistant message
MaxBlocks == 2

\* the goroutines that call the Pool and the Room at the same time
Callers == {1, 2}

(* --------------------------- environment ------------------------------ *)

\* names of the tools bound to the agent (the keys of a.toolMap)
BoundTools == {"bash_run"}

\* names the model may put in a tool_use block; "ghost" is bound to nothing
ToolNames == BoundTools \cup {"ghost"}

\* the absent tool-use id of a text block
NoId == <<0, 0>>

(* ------------------------- messages and blocks ------------------------ *)

TextBlock(t) ==
  [type |-> "text", text |-> t, id |-> NoId, name |-> "", isError |-> FALSE]

ToolUseBlock(id, name) ==
  [type |-> "tool_use", text |-> 0, id |-> id, name |-> name, isError |-> FALSE]

ToolResultBlock(id, isErr) ==
  [type |-> "tool_result", text |-> 0, id |-> id, name |-> "", isError |-> isErr]

Message(role, content) == [role |-> role, content |-> content]

\* the blocks of s whose type is t, in order
RECURSIVE SelectBlocks(_, _)
SelectBlocks(s, t) ==
  IF s = <<>> THEN <<>>
  ELSE IF Head(s).type = t THEN <<Head(s)>> \o SelectBlocks(Tail(s), t)
       ELSE SelectBlocks(Tail(s), t)

(* ------------------------------ events -------------------------------- *)

Event(ch, type, step, s1, s2, id) ==
  [ch |-> ch, type |-> type, step |-> step, s1 |-> s1, s2 |-> s2, id |-> id]

MonitorStateChangedEvent(s) == Event("monitor", "state_changed", 0, s, "", NoId)

MonitorBreakpointChangedEvent(prev, cur) ==
  Event("monitor", "breakpoint_changed", 0, prev, cur, NoId)

MonitorErrorEvent(phase, msg) == Event("monitor", "error", 0, phase, msg, NoId)

ProgressDoneEvent(step) == Event("progress", "done", step, "completed", "", NoId)

ProgressToolStartEvent(id, name, st) == Event("progress", "tool:start", 0, name, st, id)

ProgressToolEndEvent(id, name, st) == Event("progress", "tool:end", 0, name, st, id)

ProgressToolErrorEvent(id, name, st) == Event("progress", "tool:error", 0, name, st, id)

(* ------------------------- tool-call records -------------------------- *)

\* tools.NewToolCallRecord(id, name, input).Build()
NewToolCallRecord(name) ==
  [name |-> name, state |-> "PENDING", isError |-> FALSE, audit |-> <<"PENDING">>]

\* a slip: the state is set and no audit entry is appended
UpdatedRecord_NoAudit(rec, st, hasError) ==
  [rec EXCEPT !.state = st, !.isError = IF hasError THEN TRUE ELSE @]

\* the body of Agent.updateToolRecord for a record that exists
UpdatedRecord(rec, st, hasError) ==
  [rec EXCEPT !.state = st,
              !.isError = IF hasError THEN TRUE ELSE @,
              !.audit = Append(@, st)]

\* Agent.updateToolRecord: no effect when the id has no record
UpdateToolRecord(recs, id, st, hasError) ==
  IF id \in DOMAIN recs
  THEN [recs EXCEPT ![id] = UpdatedRecord(@, st, hasError)]
  ELSE recs

(* ------------------------- permission manager ------------------------- *)

\* a slip: the allow-list is looked at before the deny-list
Check_AllowFirst(deny, allow, ask, rls, mode, toolName) ==
  IF toolName \in allow THEN "allow"
  ELSE IF toolName \in deny THEN "deny"
  ELSE IF toolName \in ask THEN "ask"
  ELSE IF toolName \in DOMAIN rls THEN rls[toolName]
  ELSE IF mode = "approval" THEN "ask"
  ELSE "allow"

\* PermissionManager.Check: deny-list, allow-list, ask-list, rule, default mode
Check(deny, allow, ask, rls, mode, toolName) ==
  IF toolName \in deny THEN "deny"
  ELSE IF toolName \in allow THEN "allow"
  ELSE IF toolName \in ask THEN "ask"
  ELSE IF toolName \in DOMAIN rls THEN rls[toolName]
  ELSE IF mode = "approval" THEN "ask"
  ELSE "allow"

(* ------------------------------- state -------------------------------- *)

VARIABLES
  state,              \* a.state
  breakpoint,         \* a.breakpoint
  messages,           \* a.messages
  toolRecords,        \* a.toolRecords: id -> record
  stepCount,          \* a.stepCount
  pendingPermissions, \* a.pendingPermissions: callID -> decision
  storeMessages,      \* what Store.LoadMessages would return
  storeRecords,       \* what Store.LoadToolCallRecords would return
  events,             \* the events emitted on the bus, in emit order
  denyList, allowList, askList, rules, defaultMode, \* the PermissionManager
  spawned,            \* processMessages goroutines started and not yet run
  pc,                 \* position of the goroutine that passed the READY check
  err,                \* the error runModelStep returns ("" is nil)
  streamArg,          \* the messages argument of the last provider.Stream call
  toolUses,           \* executeTools' toolUses
  toolIdx,            \* index of the tool use executeTools is at
  toolResults,        \* executeTools' toolResults
  saveArg,            \* the messages argument of the SaveMessages in progress
  sends,              \* number of Send calls made
  modelCalls,         \* number of provider.Stream calls made
  accepted,           \* texts of the Send calls that returned nil
  passed,             \* user texts that were in the history of a Stream call
  handed,             \* tool-use ids handed to Executor.Execute, in order
  chatPc,             \* position of the Chat caller
  chatMsg,            \* the text Chat sent
  chatFrom,           \* index of the message Chat took its Text from (0: none)
  chatText,           \* CompleteResult.Text (0 is the empty string)
  agents,             \* Pool.agents: agent id -> engine
  created,            \* number of engines agent.Create has returned
  closed,             \* the engines whose stopCh has been closed
  poolPanic,          \* a close of a closed stopCh has panicked
  storeInfo,          \* the agent ids the Store holds an AgentInfo for
  storeMsgs,          \* the agent ids the Store holds saved messages for
  poolRet,            \* the last Pool call and what it returned
  poolCalls,          \* number of Pool calls made
  members,            \* Room.members: name -> agent id
  history,            \* Room.history
  sayPc,              \* position of the Room.Say call
  sayFrom,            \* Say's from
  sayText,            \* Say's text
  sayMembers,         \* the names that were members when Say read r.members
  targets,            \* Say's targets not yet visited by its sending loop
  sent,               \* the Agent.Send calls started by that Say, in order
  stepTasks,          \* Scheduler.stepTasks: task id -> StepTask
  stepListeners,      \* Scheduler.stepListeners (0 is a nil slot)
  handles,            \* the cancel functions OnStep returned: their index and cancelled
  notifyCalls,        \* number of NotifyStep calls made
  lastStep,           \* the stepCount of the last NotifyStep call
  sequential,         \* the NotifyStep calls so far were NotifyStep(1), (2), ...
  taskHist,           \* per task: calls made before EverySteps, steps it was dispatched at
  listenHist,         \* per listener: calls made before OnStep, calls it was invoked for,
                      \* calls made before its cancel function ran, removed by Clear
  intervalTasks,      \* Scheduler.intervalTasks: the ids of the tasks in the map
  taskStopCh,         \* per interval task ever registered: its stopCh is closed
  ticker,             \* per interval task ever registered: where its goroutine is
  wg,                 \* the counter of Scheduler.wg
  ctxDone,            \* Scheduler.ctx is cancelled
  shutdownPc,         \* position of the Scheduler.Shutdown call
  before,             \* the interval tasks registered when Shutdown was called
  calledAfter,        \* the tasks whose callback was invoked after Shutdown returned
  capacity,           \* cap(Executor.semaphore)
  semaphore,          \* len(Executor.semaphore)
  calls,              \* the Executor.Execute calls made, in the order they started
  batch,              \* the calls (indices) started by the ExecuteBatch call
  batchPc,            \* position of the ExecuteBatch call
  checked,            \* the PermissionManager.Check calls made: name and decision
  mu,                 \* a.mu as a Send call holds it from Lock to its deferred Unlock
  stopCh,             \* a.stopCh: "open" or "closed"
  closeRet,           \* what the Agent.Close calls returned, in order
  panicked,           \* a close of the closed a.stopCh has panicked
  rw,                 \* Room.mu ("r") and Pool.mu ("p"), each a sync.RWMutex: the goroutine
                      \* in Lock or past it, whether it is past it, and the readers
  callers,            \* per calling goroutine: the Pool or Room method it is in, the
                      \* steps it has left, and whether it is inside an engine call
  opCalls,            \* number of Pool and Room calls made by those goroutines
  stats,              \* PermissionManager.stats: the four counters of Check
  chk,                \* the Check call under way: where it is, its tool name, the
                      \* decision it has taken, and the decisions the lists, rules
                      \* and mode dictated at the instants since it was called
  checkCalls,         \* number of Check calls made
  mgrCalls,           \* number of calls that change the lists, rules, mode or stats
  notifiers,          \* per goroutine in NotifyStep: where it is, its stepCount, the
                      \* tasks of its copy it has not looked at, the task it is at
  dispatched,         \* the task callbacks started: task, stepCount, and the
                      \* LastTriggered the decision was taken from
  sendTo,             \* the Room.SendTo call: where it is, its arguments, the history
                      \* when it was called and when it returned, the error returned
  goroutines,         \* the goroutines Say and Broadcast started that have not yet
                      \* called Agent.Send: number of the call, engine, text
  delivered,          \* per engine: the room messages Agent.Send appended, in order
  roomCalls           \* number of Say, Broadcast and SendTo calls made

engineVars == <<state, breakpoint, messages, toolRecords, stepCount, pendingPermissions>>

storeVars == <<storeMessages, storeRecords>>

permVars == <<denyList, allowList, askList, rules, defaultMode>>

loopVars == <<spawned, pc, err, streamArg, toolUses, toolIdx, toolResults, saveArg>>

histVars == <<sends, modelCalls, accepted, passed, handed>>

chatVars == <<chatPc, chatMsg, chatFrom, chatText>>

\* the engine of one agent
agentVars == <<engineVars, storeVars, events, permVars, loopVars, histVars, chatVars>>

poolVars == <<agents, created, closed, poolPanic, storeInfo, storeMsgs, poolRet, poolCalls>>

\* the components around the engine
roomVars == <<members, history, sayPc, sayFrom, sayText, sayMembers, targets, sent>>

schedVars == <<stepTasks, stepListeners, handles, notifyCalls, lastStep, sequential,
               taskHist, listenHist>>

intervalVars == <<intervalTasks, taskStopCh, ticker, wg, ctxDone, shutdownPc, before,
                  calledAfter>>

\* the components that are driven on their own
execVars == <<capacity, semaphore, calls, batch, batchPc>>

checkVars == <<checked>>

lockVars == <<mu>>

closeVars == <<stopCh, closeRet, panicked>>

\* the Pool's and the Room's locks and the goroutines that take them
holdVars == <<rw, callers, opCalls>>

\* the components under concurrent callers
\* the PermissionManager's counters and the Check call among other calls
statVars == <<stats, chk, checkCalls, mgrCalls>>

\* the NotifyStep calls that overlap
raceVars == <<notifiers, dispatched>>

\* the room's messages on their way to the engines
deliverVars == <<sendTo, goroutines, delivered, roomCalls>>

lateVars == <<holdVars, statVars, raceVars, deliverVars>>

moreVars == <<intervalVars, execVars, checkVars, lockVars, closeVars, lateVars>>

compVars == <<poolVars, roomVars, schedVars, moreVars>>

\* what the interval tasks of the scheduler leave alone
aroundInterval == <<agentVars, poolVars, roomVars, handles, notifyCalls, lastStep,
                    sequential, taskHist, execVars, checkVars, lockVars, closeVars,
                    lateVars>>

\* what the executor leaves alone
aroundExecutor == <<agentVars, poolVars, roomVars, schedVars, intervalVars, checkVars,
                    lockVars, closeVars, lateVars>>

\* what a Send call leaves alone
aroundSend == <<poolVars, roomVars, schedVars, intervalVars, execVars, checkVars,
                closeVars, lateVars>>

vars == <<agentVars, compVars>>

(* ------------------------------- Init --------------------------------- *)

\* agent.Create over an empty Store
InitAgent ==
  /\ state = "READY"
  /\ breakpoint = "READY"
  /\ messages = <<>>
  /\ toolRecords = <<>>
  /\ stepCount = 0
  /\ pendingPermissions = <<>>
  /\ storeMessages = <<>>
  /\ storeRecords = <<>>
  /\ events = <<>>
  /\ spawned = 0
  /\ pc = "idle"
  /\ err = ""
  /\ streamArg = <<>>
  /\ toolUses = <<>>
  /\ toolIdx = 0
  /\ toolResults = <<>>
  /\ saveArg = <<>>
  /\ sends = 0
  /\ modelCalls = 0
  /\ accepted = {}
  /\ passed = {}
  /\ handed = <<>>
  /\ chatPc = "idle"
  /\ chatMsg = 0
  /\ chatFrom = 0
  /\ chatText = 0

\* the value of poolRet before any Pool call
NoCall == [op |-> "", id |-> "", err |-> "", engine |-> 0]

\* core.NewPool over a Store that holds nothing
InitPool ==
  /\ agents = <<>>
  /\ created = 0
  /\ closed = {}
  /\ poolPanic = FALSE
  /\ storeInfo = {}
  /\ storeMsgs = {}
  /\ poolRet = NoCall
  /\ poolCalls = 0

\* core.NewRoom(pool)
InitRoom ==
  /\ members = <<>>
  /\ history = <<>>
  /\ sayPc = "idle"
  /\ sayFrom = <<>>
  /\ sayText = <<>>
  /\ sayMembers = {}
  /\ targets = <<>>
  /\ sent = <<>>

\* core.NewScheduler(nil)
InitScheduler ==
  /\ stepTasks = <<>>
  /\ stepListeners = <<>>
  /\ handles = <<>>
  /\ notifyCalls = 0
  /\ lastStep = 0
  /\ sequential = TRUE
  /\ taskHist = <<>>
  /\ listenHist = <<>>

\* core.NewScheduler(nil): no interval task, the root context live
InitInterval ==
  /\ intervalTasks = {}
  /\ taskStopCh = <<>>
  /\ ticker = <<>>
  /\ wg = 0
  /\ ctxDone = FALSE
  /\ shutdownPc = "idle"
  /\ before = {}
  /\ calledAfter = {}

\* the concurrency NewExecutor falls back on
DefaultConcurrency == 3

\* tools.NewExecutor: the capacity of the semaphore for config.MaxConcurrency
NewExecutorCapacity(maxConcurrency) ==
  IF maxConcurrency <= 0 THEN DefaultConcurrency ELSE maxConcurrency

\* tools.NewExecutor(config) with the MaxConcurrency of agent.Create
InitExecutor ==
  /\ capacity = NewExecutorCapacity(DefaultConcurrency)
  /\ semaphore = 0
  /\ calls = <<>>
  /\ batch = {}
  /\ batchPc = "idle"

\* no Check call has been made
InitCheck == checked = {}

\* no Send call is under way
InitLock == mu = "free"

\* agent.Create: stopCh: make(chan struct{})
InitClose ==
  /\ stopCh = "open"
  /\ closeRet = <<>>
  /\ panicked = FALSE

\* both locks free and no call under way
InitHold ==
  /\ rw = [m \in {"r", "p"} |-> [w |-> 0, locked |-> FALSE, readers |-> {}]]
  /\ callers = [t \in Callers |-> [op |-> "", prog |-> <<>>, inside |-> FALSE]]
  /\ opCalls = 0

\* the counters NewPermissionManager starts with, and no Check call
NoStats == [total |-> 0, allowed |-> 0, denied |-> 0, approval |-> 0]

NoCheck == [pc |-> "idle", name |-> "", decision |-> "", dictated |-> {}]

InitStats ==
  /\ stats = NoStats
  /\ chk = NoCheck
  /\ checkCalls = 0
  /\ mgrCalls = 0

\* a goroutine that is in no NotifyStep call
NoNotify == [pc |-> "idle", step |-> 0, tasks |-> {}, task |-> 0, from |-> 0]

InitRace ==
  /\ notifiers = [g \in Callers |-> NoNotify]
  /\ dispatched = <<>>

\* no SendTo call under way
NoSendTo == [pc |-> "idle", from |-> <<>>, to |-> <<>>, agentID |-> "", text |-> <<>>,
             before |-> <<>>, after |-> <<>>, err |-> ""]

InitDeliver ==
  /\ sendTo = NoSendTo
  /\ goroutines = <<>>
  /\ delivered = <<>>
  /\ roomCalls = 0

InitLate == InitHold /\ InitStats /\ InitRace /\ InitDeliver

InitMore ==
  InitInterval /\ InitExecutor /\ InitCheck /\ InitLock /\ InitClose /\ InitLate

InitComponents == InitPool /\ InitRoom /\ InitScheduler /\ InitMore

\* core.NewPermissionManager(nil): empty lists, no rule, mode auto
Init ==
  /\ InitAgent
  /\ InitComponents
  /\ denyList = {}
  /\ askList = {}
  /\ allowList = {}
  /\ rules = <<>>
  /\ defaultMode = "auto"

\* core.NewPermissionManager(opts) with a DenyList and an AskList in opts
PermInit ==
  /\ InitAgent
  /\ InitComponents
  /\ denyList \in SUBSET BoundTools
  /\ askList \in SUBSET BoundTools
  /\ allowList = {}
  /\ rules = <<>>
  /\ defaultMode = "auto"

(* ------------------- agent.Create over a used Store ------------------- *)

\* the ids of the tool calls of an earlier run of the agent
StoredIds == <<(<<0, 1>>), (<<0, 2>>)>>

\* the states an earlier run may have left a record in when it stopped
StoredStates == {"EXECUTING", "COMPLETED"}

\* the audit trail of a record that went PENDING, EXECUTING, COMPLETED as far as st
StoredAudit(st) ==
  IF st = "PENDING" THEN <<"PENDING">>
  ELSE IF st = "EXECUTING" THEN <<"PENDING", "EXECUTING">>
  ELSE <<"PENDING", "EXECUTING", st>>

StoredRecord(st) ==
  [name |-> "bash_run", state |-> st, isError |-> FALSE, audit |-> StoredAudit(st)]

\* the messages the earlier run saved: the user's text and the assistant
\* message with the two tool uses
StoredMessages ==
  <<Message("user", <<TextBlock(0)>>),
    Message("assistant", <<ToolUseBlock(StoredIds[1], "bash_run"),
                           ToolUseBlock(StoredIds[2], "bash_run")>>)>>

\* Agent.initialize's loop over the loaded records,
\*   for _, record := range toolRecords { a.toolRecords[record.ID] = &record }
\* with a loop variable per iteration (shared = FALSE) or one loop variable
\* for the whole loop (shared = TRUE), as the language version decides
LoadedRecords(slice, shared) ==
  [id \in {slice[i].id : i \in 1..Len(slice)} |->
     IF shared THEN slice[Len(slice)].rec
     ELSE slice[CHOOSE i \in 1..Len(slice) :
                  /\ slice[i].id = id
                  /\ \A j \in (i+1)..Len(slice) : slice[j].id # id].rec]

\* agent.Create over a Store that holds the messages and the tool-call
\* records of an earlier run: initialize loads them and changes nothing
ResumeInit ==
  \E sts \in [1..Len(StoredIds) -> StoredStates], shared \in BOOLEAN :
    LET slice == [i \in 1..Len(StoredIds) |->
                    [id |-> StoredIds[i], rec |-> StoredRecord(sts[i])]]
    IN
    /\ state = "READY"
    /\ breakpoint = "READY"
    /\ storeMessages = StoredMessages
    /\ storeRecords = LoadedRecords(slice, FALSE)
    /\ messages = StoredMessages
    /\ toolRecords = LoadedRecords(slice, shared)
    /\ stepCount = 0
    /\ pendingPermissions = <<>>
    /\ events = <<>>
    /\ spawned = 0
    /\ pc = "idle"
    /\ err = ""
    /\ streamArg = <<>>
    /\ toolUses = <<>>
    /\ toolIdx = 0
    /\ toolResults = <<>>
    /\ saveArg = <<>>
    /\ sends = 0
    /\ modelCalls = 0
    /\ accepted = {}
    /\ passed = {}
    /\ handed = <<>>
    /\ chatPc = "idle"
    /\ chatMsg = 0
    /\ chatFrom = 0
    /\ chatText = 0
    /\ denyList = {}
    /\ askList = {}
    /\ allowList = {}
    /\ rules = <<>>
    /\ defaultMode = "auto"
    /\ InitComponents

(* --------------------------- shared helpers --------------------------- *)

\* the texts of the user text messages of a history
UserTexts(msgs) ==
  {msgs[i].content[1].text : i \in {j \in 1..Len(msgs) :
      msgs[j].role = "user" /\ msgs[j].content # <<>> /\ msgs[j].content[1].type = "text"}}

\* index of the last assistant message of a history, 0 when there is none
LastAssistant(msgs) ==
  IF \E i \in 1..Len(msgs) : msgs[i].role = "assistant"
  THEN CHOOSE i \in 1..Len(msgs) :
         /\ msgs[i].role = "assistant"
         /\ \A j \in (i+1)..Len(msgs) : msgs[j].role # "assistant"
  ELSE 0

\* Chat's extraction: the text of the first Text block of the last assistant message
LastAssistantText(msgs) ==
  LET i == LastAssistant(msgs)
      texts == IF i = 0 THEN <<>> ELSE SelectBlocks(msgs[i].content, "text")
  IN IF texts = <<>> THEN 0 ELSE texts[1].text

\* a slip: every event of a run of setBreakpoint calls carries the breakpoint
\* held before the first of them
BreakpointEvents_StalePrevious(prev, bps) ==
  [i \in 1..Len(bps) |-> MonitorBreakpointChangedEvent(prev, bps[i])]

\* Agent.setBreakpoint called for each element of bps in turn: the events emitted
RECURSIVE BreakpointEvents(_, _)
BreakpointEvents(prev, bps) ==
  IF bps = <<>> THEN <<>>
  ELSE <<MonitorBreakpointChangedEvent(prev, Head(bps))>>
         \o BreakpointEvents(Head(bps), Tail(bps))

\* the assistant contents the provider may stream at model call c:
\* up to MaxBlocks blocks, each a Text block or a ToolUse block with a fresh id
Contents ==
  UNION {[1..n -> {"text"} \cup ToolNames] : n \in 0..MaxBlocks}

ContentBlocks(c, kinds) ==
  [i \in 1..Len(kinds) |->
     IF kinds[i] = "text" THEN TextBlock(c) ELSE ToolUseBlock(<<c, i>>, kinds[i])]

(* --------------------------- Agent.Send ------------------------------- *)

\* Agent.Send(text) under a.mu; ok is whether Store.SaveMessages succeeds
SendBody(text, ok) ==
  /\ sends < MaxSends
  /\ sends' = sends + 1
  /\ messages' = Append(messages, Message("user", <<TextBlock(text)>>))
  /\ stepCount' = stepCount + 1
  /\ IF ok
     THEN /\ storeMessages' = messages'
          /\ spawned' = spawned + 1
          /\ accepted' = accepted \cup {text}
     ELSE UNCHANGED <<storeMessages, spawned, accepted>>
  /\ UNCHANGED <<state, breakpoint, toolRecords, pendingPermissions, storeRecords,
                 events, permVars, pc, err, streamArg, toolUses, toolIdx,
                 toolResults, saveArg, modelCalls, passed, handed>>
  /\ UNCHANGED compVars

Send ==
  \E ok \in BOOLEAN :
    /\ SendBody(sends + 1, ok)
    /\ UNCHANGED chatVars

(* --------------------------- Agent.Chat ------------------------------- *)

\* Chat's call of Send
ChatSend ==
  \E ok \in BOOLEAN :
    /\ chatPc = "idle"
    /\ SendBody(sends + 1, ok)
    /\ chatPc' = IF ok THEN "polling" ELSE "failed"
    /\ chatMsg' = sends + 1
    /\ UNCHANGED <<chatFrom, chatText>>

\* one round of Chat's polling loop that finds the agent READY and returns
ChatPoll ==
  /\ chatPc = "polling"
  /\ state = "READY"
  /\ chatPc' = "returned"
  /\ chatFrom' = LastAssistant(messages)
  /\ chatText' = LastAssistantText(messages)
  /\ UNCHANGED <<engineVars, storeVars, events, permVars, loopVars, histVars, chatMsg>>
  /\ UNCHANGED compVars

\* ctx.Done() fires while Chat waits
ChatCancel ==
  /\ chatPc = "polling"
  /\ chatPc' = "cancelled"
  /\ UNCHANGED <<engineVars, storeVars, events, permVars, loopVars, histVars,
                 chatMsg, chatFrom, chatText>>
  /\ UNCHANGED compVars

(* ----------------------- Agent.processMessages ------------------------ *)

\* a slip: a goroutine goes on whatever the state is
ReadyCheck_Always(st) == TRUE

\* processMessages under a.mu: if a.state != AgentStateReady { return }
ReadyCheck(st) == st = "READY"

\* a goroutine started by Send runs: the READY check, then WORKING and PRE_MODEL
ProcessMessages ==
  /\ spawned > 0
  /\ spawned' = spawned - 1
  /\ IF ~ReadyCheck(state)
     THEN UNCHANGED <<state, breakpoint, events, pc, err>>
     ELSE /\ state' = "WORKING"
          /\ events' = events \o <<MonitorStateChangedEvent("WORKING")>>
                              \o BreakpointEvents(breakpoint, <<"PRE_MODEL">>)
          /\ breakpoint' = "PRE_MODEL"
          /\ pc' = "model"
          /\ err' = ""
  /\ UNCHANGED <<messages, toolRecords, stepCount, pendingPermissions, storeVars,
                 permVars, streamArg, toolUses, toolIdx, toolResults, saveArg,
                 histVars, chatVars>>
  /\ UNCHANGED compVars

\* a slip: the (empty) assistant content is appended before the error is returned
OnStreamError_AppendsPartial(msgs) == Append(msgs, Message("assistant", <<>>))

\* the messages left in memory when provider.Stream returns an error
OnStreamError(msgs) == msgs

\* the end of processMessages: the error event, done, READY
FinishEvents(e, step) ==
  (IF e # "" THEN <<MonitorErrorEvent("model", e)>> ELSE <<>>)
    \o <<ProgressDoneEvent(step), MonitorStateChangedEvent("READY")>>

\* runModelStep up to the return of provider.Stream
RunModelStep ==
  \E ok \in BOOLEAN :
    /\ pc = "model"
    /\ modelCalls < MaxModelCalls
    /\ modelCalls' = modelCalls + 1
    /\ events' = events \o BreakpointEvents(breakpoint, <<"STREAMING_MODEL">>)
    /\ breakpoint' = "STREAMING_MODEL"
    /\ streamArg' = messages
    /\ passed' = passed \cup UserTexts(messages)
    /\ IF ok
       THEN /\ pc' = "streaming"
            /\ UNCHANGED <<err, messages>>
       ELSE /\ pc' = "finish"
            /\ err' = "stream model"
            /\ messages' = OnStreamError(messages)
    /\ UNCHANGED <<state, toolRecords, stepCount, pendingPermissions, storeVars,
                   permVars, spawned, toolUses, toolIdx, toolResults, saveArg,
                   sends, accepted, handed, chatVars>>
    /\ UNCHANGED compVars

\* the stream is consumed to its end and the assistant message is appended
StreamEnd ==
  \E kinds \in Contents :
    LET content == ContentBlocks(modelCalls, kinds) IN
    /\ pc = "streaming"
    /\ messages' = Append(messages, Message("assistant", content))
    /\ toolUses' = SelectBlocks(content, "tool_use")
    /\ pc' = "save_asst"
    /\ UNCHANGED <<state, breakpoint, toolRecords, stepCount, pendingPermissions,
                   storeVars, events, permVars, spawned, err, streamArg, toolIdx,
                   toolResults, saveArg, histVars, chatVars>>
    /\ UNCHANGED compVars

\* the argument a.messages of a SaveMessages call of the loop is read
SaveRead ==
  /\ pc \in {"save_asst", "save_msgs"}
  /\ saveArg' = messages
  /\ pc' = IF pc = "save_asst" THEN "save_asst_w" ELSE "save_msgs_w"
  /\ UNCHANGED <<engineVars, storeVars, events, permVars, spawned, err, streamArg,
                 toolUses, toolIdx, toolResults, histVars, chatVars>>
  /\ UNCHANGED compVars

\* runModelStep: SaveMessages returns, then TOOL_PENDING or return nil
SaveAssistant ==
  \E ok \in BOOLEAN :
    /\ pc = "save_asst_w"
    /\ IF ~ok
       THEN /\ err' = "save messages"
            /\ pc' = "finish"
            /\ UNCHANGED <<storeMessages, breakpoint, events, toolIdx, toolResults>>
       ELSE /\ storeMessages' = saveArg
            /\ UNCHANGED err
            /\ IF toolUses # <<>>
               THEN /\ events' = events \o BreakpointEvents(breakpoint, <<"TOOL_PENDING">>)
                    /\ breakpoint' = "TOOL_PENDING"
                    /\ toolIdx' = 1
                    /\ toolResults' = <<>>
                    /\ pc' = "tool_new"
               ELSE /\ pc' = "finish"
                    /\ UNCHANGED <<breakpoint, events, toolIdx, toolResults>>
    /\ UNCHANGED <<state, messages, toolRecords, stepCount, pendingPermissions,
                   storeRecords, permVars, spawned, streamArg, toolUses, saveArg,
                   histVars, chatVars>>
    /\ UNCHANGED compVars

\* processMessages after runModelStep returned, and its deferred state = READY
Finish ==
  /\ pc = "finish"
  /\ events' = events \o FinishEvents(err, stepCount)
  /\ state' = "READY"
  /\ pc' = "idle"
  /\ err' = ""
  /\ streamArg' = <<>>
  /\ toolUses' = <<>>
  /\ toolIdx' = 0
  /\ toolResults' = <<>>
  /\ saveArg' = <<>>
  /\ UNCHANGED <<breakpoint, messages, toolRecords, stepCount, pendingPermissions,
                 storeVars, permVars, spawned, histVars, chatVars>>
  /\ UNCHANGED compVars

(* ------------------- executeTools / executeSingleTool ------------------ *)

\* a slip: the result is put in front of the earlier ones
AppendResult_Prepend(results, r) == <<r>> \o results

\* executeTools' toolResults = append(toolResults, result)
AppendResult(results, r) == Append(results, r)

\* the ToolResult block executeSingleTool returns for a failed call
ErrorResult(id) == ToolResultBlock(id, TRUE)

\* a slip: a failed call is returned as an error of executeTools
AfterTool_FailureEndsLoop(i, n, failed) ==
  IF failed THEN "finish" ELSE IF i < n THEN "tool_new" ELSE "append_results"

\* where executeTools goes after executeSingleTool returned for tool use i of n
AfterTool(i, n, failed) == IF i < n THEN "tool_new" ELSE "append_results"

\* executeSingleTool: the record is created in PENDING and ProgressToolStart emitted
ToolNew ==
  LET tu == toolUses[toolIdx] IN
  /\ pc = "tool_new"
  /\ toolRecords' = [k \in DOMAIN toolRecords \cup {tu.id} |->
                       IF k = tu.id THEN NewToolCallRecord(tu.name) ELSE toolRecords[k]]
  /\ events' = events \o <<ProgressToolStartEvent(tu.id, tu.name, "PENDING")>>
  /\ pc' = "tool_lookup"
  /\ UNCHANGED <<state, breakpoint, messages, stepCount, pendingPermissions,
                 storeVars, permVars, spawned, err, streamArg, toolUses, toolIdx,
                 toolResults, saveArg, histVars, chatVars>>
  /\ UNCHANGED compVars

\* the state a bound tool's record is given before Executor.Execute is called
StateBeforeExecute == "EXECUTING"

\* executeSingleTool: the a.toolMap lookup; an unbound name fails the call,
\* a bound one goes PRE_TOOL, EXECUTING, TOOL_EXECUTING and into Executor.Execute
ToolLookup ==
  LET tu == toolUses[toolIdx] IN
  /\ pc = "tool_lookup"
  /\ IF tu.name \notin BoundTools
     THEN /\ toolRecords' = UpdateToolRecord(toolRecords, tu.id, "FAILED", TRUE)
          /\ events' = events \o <<ProgressToolErrorEvent(tu.id, tu.name, "FAILED")>>
          /\ toolResults' = AppendResult(toolResults, ErrorResult(tu.id))
          /\ pc' = AfterTool(toolIdx, Len(toolUses), TRUE)
          /\ toolIdx' = IF toolIdx < Len(toolUses) THEN toolIdx + 1 ELSE toolIdx
          /\ UNCHANGED <<breakpoint, handed>>
     ELSE /\ toolRecords' = UpdateToolRecord(toolRecords, tu.id, StateBeforeExecute, FALSE)
          /\ events' = events \o BreakpointEvents(breakpoint, <<"PRE_TOOL", "TOOL_EXECUTING">>)
          /\ breakpoint' = "TOOL_EXECUTING"
          /\ handed' = Append(handed, tu.id)
          /\ pc' = "tool_exec"
          /\ UNCHANGED <<toolResults, toolIdx>>
  /\ UNCHANGED <<state, messages, stepCount, pendingPermissions, storeVars, permVars,
                 spawned, err, streamArg, toolUses, saveArg, sends, modelCalls,
                 accepted, passed, chatVars>>
  /\ UNCHANGED compVars

\* executeSingleTool after Executor.Execute returned with Success = success
ToolExec ==
  \E success \in BOOLEAN :
    LET tu == toolUses[toolIdx]
        st == IF success THEN "COMPLETED" ELSE "FAILED"
    IN
    /\ pc = "tool_exec"
    /\ toolRecords' = UpdateToolRecord(toolRecords, tu.id, st, ~success)
    /\ events' = events \o <<ProgressToolEndEvent(tu.id, tu.name, st)>>
                        \o BreakpointEvents(breakpoint, <<"POST_TOOL">>)
    /\ breakpoint' = "POST_TOOL"
    /\ toolResults' = AppendResult(toolResults,
                        IF success THEN ToolResultBlock(tu.id, FALSE) ELSE ErrorResult(tu.id))
    /\ pc' = AfterTool(toolIdx, Len(toolUses), ~success)
    /\ toolIdx' = IF toolIdx < Len(toolUses) THEN toolIdx + 1 ELSE toolIdx
    /\ UNCHANGED <<state, messages, stepCount, pendingPermissions, storeVars, permVars,
                   spawned, err, streamArg, toolUses, saveArg, histVars, chatVars>>
    /\ UNCHANGED compVars

\* executeTools: the tool-result message is appended and stepCount bumped
AppendResults ==
  /\ pc = "append_results"
  /\ messages' = Append(messages, Message("user", toolResults))
  /\ stepCount' = stepCount + 1
  /\ pc' = "save_msgs"
  /\ UNCHANGED <<state, breakpoint, toolRecords, pendingPermissions, storeVars, events,
                 permVars, spawned, err, streamArg, toolUses, toolIdx, toolResults,
                 saveArg, histVars, chatVars>>
  /\ UNCHANGED compVars

\* executeTools: SaveMessages returns
SaveMessages ==
  \E ok \in BOOLEAN :
    /\ pc = "save_msgs_w"
    /\ IF ok
       THEN /\ storeMessages' = saveArg
            /\ pc' = "save_recs"
            /\ UNCHANGED err
       ELSE /\ err' = "save messages"
            /\ pc' = "finish"
            /\ UNCHANGED storeMessages
    /\ UNCHANGED <<engineVars, storeRecords, events, permVars, spawned, streamArg,
                   toolUses, toolIdx, toolResults, saveArg, histVars, chatVars>>
    /\ UNCHANGED compVars

\* executeTools: SaveToolCallRecords returns, then runModelStep again with
\* locals of its own
SaveToolCallRecords ==
  \E ok \in BOOLEAN :
    /\ pc = "save_recs"
    /\ IF ok
       THEN /\ storeRecords' = toolRecords
            /\ pc' = "model"
            /\ toolUses' = <<>>
            /\ toolIdx' = 0
            /\ toolResults' = <<>>
            /\ saveArg' = <<>>
            /\ UNCHANGED err
       ELSE /\ err' = "save tool records"
            /\ pc' = "finish"
            /\ UNCHANGED <<storeRecords, toolUses, toolIdx, toolResults, saveArg>>
    /\ UNCHANGED <<engineVars, storeMessages, events, permVars, spawned, streamArg,
                   histVars, chatVars>>
    /\ UNCHANGED compVars

(* --------------------------- specification ---------------------------- *)

Next ==
  \/ Send
  \/ ProcessMessages
  \/ RunModelStep
  \/ StreamEnd
  \/ SaveRead
  \/ SaveAssistant
  \/ ToolNew
  \/ ToolLookup
  \/ ToolExec
  \/ AppendResults
  \/ SaveMessages
  \/ SaveToolCallRecords
  \/ Finish

\* the engine driven by Send
Spec == Init /\ [][Next]_vars

\* the engine under a permission manager that holds a deny-list and an ask-list
PermSpec == PermInit /\ [][Next]_vars

ChatNext ==
  \/ Next
  \/ ChatSend
  \/ ChatPoll
  \/ ChatCancel

\* the engine driven by Send and by one Chat call
ChatSpec == Init /\ [][ChatNext]_vars

\* the engine created over the Store of an earlier run, then driven by Send
ResumeSpec == ResumeInit /\ [][Next]_vars

(* -------------------------------- Pool -------------------------------- *)

\* PoolOptions.MaxAgents of the pool under check
MaxAgents == 2

\* number of Pool calls the clients make
MaxPoolCalls == 4

\* the AgentID values the callers put in a config
AgentIDs == {"a", "b", "c"}

\* agent.generateAgentID for the n-th engine: "agt:" and a fresh uuid
generateAgentID(n) ==
  <<"agt:1", "agt:2", "agt:3", "agt:4", "agt:5", "agt:6", "agt:7", "agt:8">>[n]

PoolReturn(op, id, e, eng) == [op |-> op, id |-> id, err |-> e, engine |-> eng]

\* a slip: the pool counts as full only above maxAgents
PoolFull_OffByOne(n, max) == n > max

\* Pool.Create, Pool.Resume: len(p.agents) >= p.maxAgents
PoolFull(n, max) == n >= max

\* delete(p.agents, id)
Without(f, id) == [k \in DOMAIN f \ {id} |-> f[k]]

\* Pool.Create(config) under p.mu; ok is whether agent.Create succeeds
PoolCreate ==
  \E cfgID \in AgentIDs \cup {""}, ok \in BOOLEAN :
    LET id == IF cfgID = "" THEN generateAgentID(created + 1) ELSE cfgID IN
    /\ ~poolPanic
    /\ poolCalls < MaxPoolCalls
    /\ poolCalls' = poolCalls + 1
    /\ IF cfgID \in DOMAIN agents
       THEN /\ poolRet' = PoolReturn("create", cfgID, "agent already exists", 0)
            /\ UNCHANGED <<agents, created, storeInfo>>
       ELSE IF PoolFull(Cardinality(DOMAIN agents), MaxAgents)
       THEN /\ poolRet' = PoolReturn("create", cfgID, "pool is full", 0)
            /\ UNCHANGED <<agents, created, storeInfo>>
       ELSE IF ~ok
       THEN /\ poolRet' = PoolReturn("create", cfgID, "create agent", 0)
            /\ UNCHANGED <<agents, created, storeInfo>>
       ELSE /\ created' = created + 1
            /\ agents' = (id :> created') @@ agents
            /\ storeInfo' = storeInfo \cup {id}
            /\ poolRet' = PoolReturn("create", cfgID, "", created')
    /\ UNCHANGED <<closed, poolPanic, storeMsgs, agentVars, roomVars, schedVars, moreVars>>

\* a slip: Resume checks the capacity before it looks the id up
ResumeOutcome_CapacityFirst(exists, full) ==
  IF full THEN "full" ELSE IF exists THEN "existing" ELSE "load"

\* Pool.Resume, steps 1 and 2: the id is looked up, then the capacity checked
ResumeOutcome(exists, full) ==
  IF exists THEN "existing" ELSE IF full THEN "full" ELSE "load"

\* Pool.Resume(agentID, config) under p.mu; loadOk is whether Store.LoadMessages
\* returns no error, ok whether agent.Create succeeds
PoolResume ==
  \E id \in AgentIDs, loadOk \in BOOLEAN, ok \in BOOLEAN :
    LET outcome == ResumeOutcome(id \in DOMAIN agents,
                                 PoolFull(Cardinality(DOMAIN agents), MaxAgents))
    IN
    /\ ~poolPanic
    /\ poolCalls < MaxPoolCalls
    /\ poolCalls' = poolCalls + 1
    /\ IF outcome = "existing"
       THEN /\ poolRet' = PoolReturn("resume", id, "", agents[id])
            /\ UNCHANGED <<agents, created, storeInfo>>
       ELSE IF outcome = "full"
       THEN /\ poolRet' = PoolReturn("resume", id, "pool is full", 0)
            /\ UNCHANGED <<agents, created, storeInfo>>
       ELSE IF ~loadOk
       THEN /\ poolRet' = PoolReturn("resume", id, "agent not found in store", 0)
            /\ UNCHANGED <<agents, created, storeInfo>>
       ELSE IF ~ok
       THEN /\ poolRet' = PoolReturn("resume", id, "resume agent", 0)
            /\ UNCHANGED <<agents, created, storeInfo>>
       ELSE /\ created' = created + 1
            /\ agents' = (id :> created') @@ agents
            /\ storeInfo' = storeInfo \cup {id}
            /\ poolRet' = PoolReturn("resume", id, "", created')
    /\ UNCHANGED <<closed, poolPanic, storeMsgs, agentVars, roomVars, schedVars, moreVars>>

\* Pool.Remove(agentID) under p.mu; closeOk is whether Agent.Close returns nil.
\* Close closes a.stopCh first: on an engine closed before, that panics
PoolRemove ==
  \E id \in AgentIDs, closeOk \in BOOLEAN :
    /\ ~poolPanic
    /\ poolCalls < MaxPoolCalls
    /\ poolCalls' = poolCalls + 1
    /\ IF id \notin DOMAIN agents
       THEN /\ poolRet' = PoolReturn("remove", id, "agent not found", 0)
            /\ UNCHANGED <<agents, closed, poolPanic>>
       ELSE IF agents[id] \in closed
       THEN /\ poolPanic' = TRUE
            /\ poolRet' = PoolReturn("remove", id, "panic", 0)
            /\ UNCHANGED <<agents, closed>>
       ELSE /\ closed' = closed \cup {agents[id]}
            /\ UNCHANGED poolPanic
            /\ IF closeOk
               THEN /\ agents' = Without(agents, id)
                    /\ poolRet' = PoolReturn("remove", id, "", 0)
               ELSE /\ poolRet' = PoolReturn("remove", id, "close agent", 0)
                    /\ UNCHANGED agents
    /\ UNCHANGED <<created, storeInfo, storeMsgs, agentVars, roomVars, schedVars, moreVars>>

\* Pool.Delete(ctx, agentID) under p.mu: Close and delete from the map when
\* the id is registered, then return nil; no Store operation is called
PoolDelete ==
  \E id \in AgentIDs, closeOk \in BOOLEAN :
    /\ ~poolPanic
    /\ poolCalls < MaxPoolCalls
    /\ poolCalls' = poolCalls + 1
    /\ IF id \notin DOMAIN agents
       THEN /\ poolRet' = PoolReturn("delete", id, "", 0)
            /\ UNCHANGED <<agents, closed, poolPanic>>
       ELSE IF agents[id] \in closed
       THEN /\ poolPanic' = TRUE
            /\ poolRet' = PoolReturn("delete", id, "panic", 0)
            /\ UNCHANGED <<agents, closed>>
       ELSE /\ closed' = closed \cup {agents[id]}
            /\ UNCHANGED poolPanic
            /\ IF closeOk
               THEN /\ agents' = Without(agents, id)
                    /\ poolRet' = PoolReturn("delete", id, "", 0)
               ELSE /\ poolRet' = PoolReturn("delete", id, "close agent", 0)
                    /\ UNCHANGED agents
    /\ UNCHANGED <<created, storeInfo, storeMsgs, agentVars, roomVars, schedVars, moreVars>>

\* Pool.Shutdown() under p.mu: every engine is closed, in map order, and the
\* map replaced by an empty one; failing are the ids whose Close returns an error
PoolShutdown ==
  \E failing \in SUBSET DOMAIN agents, done \in SUBSET DOMAIN agents :
    /\ ~poolPanic
    /\ poolCalls < MaxPoolCalls
    /\ poolCalls' = poolCalls + 1
    /\ IF \E id \in DOMAIN agents : agents[id] \in closed
       THEN /\ poolPanic' = TRUE
            /\ closed' = closed \cup {agents[id] : id \in done}
            /\ poolRet' = PoolReturn("shutdown", "", "panic", 0)
            /\ UNCHANGED agents
       ELSE /\ done = DOMAIN agents
            /\ closed' = closed \cup {agents[id] : id \in done}
            /\ agents' = <<>>
            /\ poolRet' = PoolReturn("shutdown", "",
                                      IF failing = {} THEN "" ELSE "close agent", 0)
            /\ UNCHANGED poolPanic
    /\ UNCHANGED <<created, storeInfo, storeMsgs, agentVars, roomVars, schedVars, moreVars>>

\* an Agent.Send, on an engine taken from the pool with Pool.Get, whose
\* Store.SaveMessages succeeds: the messages are saved under the agent's id
PoolAgentSend ==
  \E id \in DOMAIN agents :
    /\ ~poolPanic
    /\ storeMsgs' = storeMsgs \cup {id}
    /\ UNCHANGED <<agents, created, closed, poolPanic, storeInfo, poolRet, poolCalls,
                   agentVars, roomVars, schedVars, moreVars>>

PoolNext ==
  \/ PoolCreate
  \/ PoolResume
  \/ PoolRemove
  \/ PoolDelete
  \/ PoolShutdown
  \/ PoolAgentSend

\* the pool under concurrent callers: every Pool method runs under p.mu
PoolSpec == Init /\ [][PoolNext]_vars

(* -------------------------------- Room -------------------------------- *)

\* number of messages the room history holds at most
MaxHistory == 1

\* the display names the callers use; a name is its sequence of characters
MemberNames == {<<"a">>, <<"b">>, <<"a", "b">>}

\* the texts the callers say
Texts ==
  { <<"h", "i">>,
    <<"@">>,
    <<"@", "a">>,
    <<"@", "a", "b">>,
    <<"@", "a", "@", "b">>,
    <<"@", "b", " ", "@", "b", "!">>,
    <<"a", "@", "b", ".", "i">>,
    <<"@", "@", "h", "i">> }

\* \w of the mention regex: [0-9A-Za-z_]
IsWordChar(c) == c \in {"a", "b", "h", "i"}

\* length of the longest run of word characters of s that starts at i
RECURSIVE WordRun(_, _)
WordRun(s, i) ==
  IF i > Len(s) \/ ~IsWordChar(s[i]) THEN 0 ELSE 1 + WordRun(s, i + 1)

\* mentionRegex.FindAllStringSubmatch(text, -1) for @(\w+), from position i:
\* leftmost, longest, non-overlapping matches; the first group of each
RECURSIVE FindAllMentions(_, _)
FindAllMentions(s, i) ==
  IF i > Len(s) THEN <<>>
  ELSE IF s[i] = "@" /\ WordRun(s, i + 1) > 0
       THEN <<SubSeq(s, i + 1, i + WordRun(s, i + 1))>>
              \o FindAllMentions(s, i + 1 + WordRun(s, i + 1))
       ELSE FindAllMentions(s, i + 1)

\* extractMentions' loop: a name is kept the first time it is seen
RECURSIVE Dedup(_, _)
Dedup(s, seen) ==
  IF s = <<>> THEN <<>>
  ELSE IF Head(s) \in seen THEN Dedup(Tail(s), seen)
       ELSE <<Head(s)>> \o Dedup(Tail(s), seen \cup {Head(s)})

\* Room.extractMentions
extractMentions(text) == Dedup(FindAllMentions(text, 1), {})

\* Say's targets map: the mentioned names that are members, or, without a
\* mention, every member but the sender
SayTargets(mem, from, mentions) ==
  IF Len(mentions) > 0
  THEN [n \in {mentions[i] : i \in 1..Len(mentions)} \cap DOMAIN mem |-> mem[n]]
  ELSE [n \in DOMAIN mem \ {from} |-> mem[n]]

\* fmt.Sprintf("[from:%s] %s", from, text)
FormattedText(from, text) ==
  <<"[", "f", "r", "o", "m", ":">> \o from \o <<"]", " ">> \o text

RoomMessage(from, to, text) == [from |-> from, to |-> to, text |-> text]

\* Room.Join(name, agentID) under r.mu: an error and no change when the name
\* is taken or the pool does not hold the agent
RoomJoin ==
  \E name \in MemberNames, agentID \in AgentIDs :
    /\ name \notin DOMAIN members
    /\ agentID \in DOMAIN agents
    /\ members' = (name :> agentID) @@ members
    /\ UNCHANGED <<history, sayPc, sayFrom, sayText, sayMembers, targets, sent,
                   poolVars, agentVars, schedVars, moreVars>>

\* Room.Leave(name) under r.mu: an error and no change for a name not bound
RoomLeave ==
  \E name \in DOMAIN members :
    /\ members' = Without(members, name)
    /\ UNCHANGED <<history, sayPc, sayFrom, sayText, sayMembers, targets, sent,
                   poolVars, agentVars, schedVars, moreVars>>

\* Room.Say(from, text), the part under r.mu.RLock: the sender is checked,
\* the mentions extracted and the targets taken from r.members
RoomSay ==
  \E from \in MemberNames, text \in Texts :
    /\ sayPc \in {"idle", "done", "failed"}
    /\ Len(history) < MaxHistory
    /\ sayFrom' = from
    /\ sayText' = text
    /\ sent' = <<>>
    /\ IF from \notin DOMAIN members
       THEN /\ sayPc' = "failed"
            /\ sayMembers' = {}
            /\ targets' = <<>>
       ELSE /\ sayPc' = "record"
            /\ sayMembers' = DOMAIN members
            /\ targets' = SayTargets(members, from, extractMentions(text))
    /\ UNCHANGED <<members, history, poolVars, agentVars, schedVars, moreVars>>

\* Room.Say, the part under r.mu.Lock: the message is appended to the history
RoomSayRecord ==
  LET mentions == extractMentions(sayText) IN
  /\ sayPc = "record"
  /\ history' = Append(history, RoomMessage(sayFrom, mentions, sayText))
  /\ sayPc' = IF DOMAIN targets = {} THEN "done" ELSE "send"
  /\ UNCHANGED <<members, sayFrom, sayText, sayMembers, targets, sent,
                 poolVars, agentVars, schedVars, moreVars>>

\* Room.Say, one round of the loop over targets (in map order): pool.Get,
\* and for an agent the pool holds a goroutine that calls Agent.Send
RoomSaySend ==
  \E name \in DOMAIN targets :
    /\ sayPc = "send"
    /\ sent' = IF targets[name] \in DOMAIN agents
               THEN Append(sent, [to |-> name, agent |-> agents[targets[name]],
                                  text |-> FormattedText(sayFrom, sayText)])
               ELSE sent
    /\ targets' = Without(targets, name)
    /\ sayPc' = IF DOMAIN targets' = {} THEN "done" ELSE "send"
    /\ UNCHANGED <<members, history, sayFrom, sayText, sayMembers,
                   poolVars, agentVars, schedVars, moreVars>>

\* core.NewRoom over a pool in which the agents "a" and "b" have been created
RoomInit ==
  /\ InitAgent
  /\ denyList = {}
  /\ askList = {}
  /\ allowList = {}
  /\ rules = <<>>
  /\ defaultMode = "auto"
  /\ agents = ("a" :> 1) @@ ("b" :> 2)
  /\ created = 2
  /\ closed = {}
  /\ poolPanic = FALSE
  /\ storeInfo = {"a", "b"}
  /\ storeMsgs = {}
  /\ poolRet = PoolReturn("create", "b", "", 2)
  /\ poolCalls = 2
  /\ InitRoom
  /\ InitScheduler
  /\ InitMore

RoomNext ==
  \/ RoomJoin
  \/ RoomLeave
  \/ RoomSay
  \/ RoomSayRecord
  \/ RoomSaySend
  \/ PoolRemove

\* one caller of Say at a time, with Join, Leave and Pool.Remove in between
RoomSpec == RoomInit /\ [][RoomNext]_vars

(* ------------------------------ Scheduler ----------------------------- *)

\* number of NotifyStep calls, and the largest step passed
MaxSteps == 6

\* the largest every passed to EverySteps
MaxEvery == 3

\* number of EverySteps calls
MaxTasks == 2

\* number of OnStep calls
MaxListeners == 2

StepTask(every) == [every |-> every, lastTriggered |-> 0]

\* Scheduler.EverySteps(every, callback) under s.mu, for every > 0 (an error
\* and no change otherwise); the task id is taken as fresh
EverySteps ==
  \E every \in 1..MaxEvery :
    LET id == Cardinality(DOMAIN taskHist) + 1 IN
    /\ id <= MaxTasks
    /\ stepTasks' = (id :> StepTask(every)) @@ stepTasks
    /\ taskHist' = (id :> [since |-> notifyCalls, steps |-> <<>>]) @@ taskHist
    /\ UNCHANGED <<stepListeners, handles, notifyCalls, lastStep, sequential,
                   listenHist, agentVars, poolVars, roomVars, moreVars>>

\* Scheduler.Cancel(taskID) under s.mu, for a step task
CancelTask ==
  \E id \in DOMAIN stepTasks :
    /\ stepTasks' = Without(stepTasks, id)
    /\ UNCHANGED <<stepListeners, handles, notifyCalls, lastStep, sequential,
                   taskHist, listenHist, agentVars, poolVars, roomVars, moreVars>>

\* Scheduler.OnStep(callback) under s.mu: the listener is appended and the
\* cancel function returned remembers the index it was appended at
OnStep ==
  LET l == Cardinality(DOMAIN handles) + 1
      index == Len(stepListeners)
  IN
  /\ l <= MaxListeners
  /\ stepListeners' = Append(stepListeners, l)
  /\ handles' = (l :> [index |-> index, cancelled |-> FALSE]) @@ handles
  /\ listenHist' = (l :> [since |-> notifyCalls, calls |-> <<>>,
                          cancelAt |-> -1, cleared |-> FALSE]) @@ listenHist
  /\ UNCHANGED <<stepTasks, notifyCalls, lastStep, sequential, taskHist,
                 agentVars, poolVars, roomVars, moreVars>>

\* the cancel function OnStep returned for listener l, under s.mu: once only,
\* the slot at the remembered index is set to nil when the list has one
CancelListener ==
  \E l \in DOMAIN handles :
    /\ ~handles[l].cancelled
    /\ handles' = [handles EXCEPT ![l].cancelled = TRUE]
    /\ stepListeners' =
         IF handles[l].index < Len(stepListeners)
         THEN [stepListeners EXCEPT ![handles[l].index + 1] = 0]
         ELSE stepListeners
    /\ listenHist' = [listenHist EXCEPT ![l].cancelAt = notifyCalls]
    /\ UNCHANGED <<stepTasks, notifyCalls, lastStep, sequential, taskHist,
                   agentVars, poolVars, roomVars, moreVars>>

\* the body of Scheduler.Clear() under s.mu: the stopCh of every interval task
\* of the map is closed, then the three collections are replaced by empty ones
ClearBody ==
  /\ taskStopCh' = [id \in DOMAIN taskStopCh |-> taskStopCh[id] \/ id \in intervalTasks]
  /\ intervalTasks' = {}
  /\ stepTasks' = <<>>
  /\ stepListeners' = <<>>
  /\ listenHist' = [l \in DOMAIN listenHist |->
                      IF \E i \in 1..Len(stepListeners) : stepListeners[i] = l
                      THEN [listenHist[l] EXCEPT !.cleared = TRUE]
                      ELSE listenHist[l]]

\* Scheduler.Clear()
Clear ==
  /\ ClearBody
  /\ UNCHANGED <<ticker, wg, ctxDone, shutdownPc, before, calledAfter, aroundInterval>>

\* a slip: a task fires only when more than every steps have passed
ShouldTrigger_Strict(step, lastTriggered, every) ==
  step - lastTriggered > every

\* NotifyStep: shouldTrigger := stepCount - task.LastTriggered >= task.Every
ShouldTrigger(step, lastTriggered, every) ==
  step - lastTriggered >= every

\* NotifyStep: a nil slot of the copied listener list is skipped
Listening(slot) == slot # 0

\* Scheduler.NotifyStep(stepCount), not overlapping another NotifyStep: a
\* goroutine is started for every listener of the list and for every task
\* that should trigger, whose LastTriggered is set to it
NotifyStep ==
  \E step \in (lastStep + 1)..(lastStep + 2) :
    LET call == notifyCalls + 1
        fired == {id \in DOMAIN stepTasks :
                    ShouldTrigger(step, stepTasks[id].lastTriggered,
                                  stepTasks[id].every)}
        heard == {stepListeners[i] : i \in {j \in 1..Len(stepListeners) :
                                             Listening(stepListeners[j])}}
    IN
    /\ notifyCalls < MaxSteps
    /\ step <= MaxSteps
    /\ notifyCalls' = call
    /\ lastStep' = step
    /\ sequential' = (sequential /\ step = call)
    /\ stepTasks' = [id \in DOMAIN stepTasks |->
                       IF id \in fired
                       THEN [stepTasks[id] EXCEPT !.lastTriggered = step]
                       ELSE stepTasks[id]]
    /\ taskHist' = [id \in DOMAIN taskHist |->
                      IF id \in fired
                      THEN [taskHist[id] EXCEPT !.steps = Append(@, step)]
                      ELSE taskHist[id]]
    /\ listenHist' = [l \in DOMAIN listenHist |->
                        IF l \in heard
                        THEN [listenHist[l] EXCEPT !.calls = Append(@, call)]
                        ELSE listenHist[l]]
    /\ UNCHANGED <<stepListeners, handles, agentVars, poolVars, roomVars, moreVars>>

StepTaskNext ==
  \/ EverySteps
  \/ CancelTask
  \/ Clear
  \/ NotifyStep

\* the scheduler's step tasks, with NotifyStep calls delivered one after another
StepTaskSpec == Init /\ [][StepTaskNext]_vars

StepListenerNext ==
  \/ OnStep
  \/ CancelListener
  \/ Clear
  \/ NotifyStep

\* the scheduler's step listeners, with NotifyStep calls delivered one after
\* another
StepListenerSpec == Init /\ [][StepListenerNext]_vars

(* ---------------------- Scheduler: interval tasks --------------------- *)

\* number of EveryInterval calls
MaxIntervalTasks == 3

\* Scheduler.EveryInterval(interval, callback) under s.mu, for interval > 0 (an
\* error and no change otherwise): the task enters the map, wg.Add(1), and its
\* goroutine is started at the select; the task id is taken as fresh
EveryInterval ==
  LET id == Cardinality(DOMAIN ticker) + 1 IN
  /\ id <= MaxIntervalTasks
  /\ intervalTasks' = intervalTasks \cup {id}
  /\ taskStopCh' = (id :> FALSE) @@ taskStopCh
  /\ ticker' = (id :> "select") @@ ticker
  /\ wg' = wg + 1
  /\ UNCHANGED <<ctxDone, shutdownPc, before, calledAfter, stepTasks, stepListeners,
                 listenHist, aroundInterval>>

\* the goroutine of task id takes the case <-ticker.C of its select (whatever
\* other case is ready too) and invokes the callback
Tick(id) ==
  /\ id \in DOMAIN ticker
  /\ ticker[id] = "select"
  /\ ticker' = [ticker EXCEPT ![id] = "callback"]
  /\ calledAfter' = IF shutdownPc = "returned" /\ id \in before
                    THEN calledAfter \cup {id} ELSE calledAfter
  /\ UNCHANGED <<intervalTasks, taskStopCh, wg, ctxDone, shutdownPc, before,
                 stepTasks, stepListeners, listenHist, aroundInterval>>

\* the callback of task id returns and the goroutine is back at the select
CallbackReturn(id) ==
  /\ id \in DOMAIN ticker
  /\ ticker[id] = "callback"
  /\ ticker' = [ticker EXCEPT ![id] = "select"]
  /\ UNCHANGED <<intervalTasks, taskStopCh, wg, ctxDone, shutdownPc, before,
                 calledAfter, stepTasks, stepListeners, listenHist, aroundInterval>>

\* the goroutine of task id takes the case <-stopCh or <-s.ctx.Done() of its
\* select: ticker.Stop(), return, and the deferred wg.Done()
TickerExit(id) ==
  /\ id \in DOMAIN ticker
  /\ ticker[id] = "select"
  /\ taskStopCh[id] \/ ctxDone
  /\ ticker' = [ticker EXCEPT ![id] = "done"]
  /\ wg' = wg - 1
  /\ UNCHANGED <<intervalTasks, taskStopCh, ctxDone, shutdownPc, before, calledAfter,
                 stepTasks, stepListeners, listenHist, aroundInterval>>

\* Scheduler.Cancel(taskID) under s.mu, for an interval task: its stopCh is
\* closed and it leaves the map
CancelInterval ==
  \E id \in intervalTasks :
    /\ taskStopCh' = [taskStopCh EXCEPT ![id] = TRUE]
    /\ intervalTasks' = intervalTasks \ {id}
    /\ UNCHANGED <<ticker, wg, ctxDone, shutdownPc, before, calledAfter, stepTasks,
                   stepListeners, listenHist, aroundInterval>>

\* Scheduler.Shutdown(): s.cancel()
ShutdownCancel ==
  /\ shutdownPc = "idle"
  /\ ctxDone' = TRUE
  /\ before' = DOMAIN ticker
  /\ shutdownPc' = "cancelled"
  /\ UNCHANGED <<intervalTasks, taskStopCh, ticker, wg, calledAfter, stepTasks,
                 stepListeners, listenHist, aroundInterval>>

\* Scheduler.Shutdown(): s.Clear()
ShutdownClear ==
  /\ shutdownPc = "cancelled"
  /\ ClearBody
  /\ shutdownPc' = "cleared"
  /\ UNCHANGED <<ticker, wg, ctxDone, before, calledAfter, aroundInterval>>

\* a slip: Shutdown returns without waiting for the goroutines
WaitReturns_NoWait(n) == TRUE

\* sync.WaitGroup.Wait returns when the counter is zero
WaitReturns(n) == n = 0

\* Scheduler.Shutdown(): s.wg.Wait() returns, and so does Shutdown
ShutdownWait ==
  /\ shutdownPc = "cleared"
  /\ WaitReturns(wg)
  /\ shutdownPc' = "returned"
  /\ UNCHANGED <<intervalTasks, taskStopCh, ticker, wg, ctxDone, before, calledAfter,
                 stepTasks, stepListeners, listenHist, aroundInterval>>

IntervalNext ==
  \/ EveryInterval
  \/ \E id \in DOMAIN ticker : Tick(id)
  \/ \E id \in DOMAIN ticker : CallbackReturn(id)
  \/ \E id \in DOMAIN ticker : TickerExit(id)
  \/ CancelInterval
  \/ Clear
  \/ ShutdownCancel
  \/ ShutdownClear
  \/ ShutdownWait

\* the scheduler's interval tasks and one Shutdown call. Every callback
\* returns, the Shutdown caller keeps running, and a select that is entered
\* again and again with a closed stopCh or a cancelled context ready ends up
\* taking that case (the runtime picks among the ready cases at random)
IntervalSpec ==
  /\ Init
  /\ [][IntervalNext]_vars
  /\ \A id \in 1..MaxIntervalTasks :
       WF_vars(CallbackReturn(id)) /\ SF_vars(TickerExit(id))
  /\ WF_vars(ShutdownClear)
  /\ WF_vars(ShutdownWait)

(* ------------------------------ Executor ------------------------------ *)

\* number of Execute calls, those of the ExecuteBatch call included
MaxCalls == 2

\* the largest config.MaxConcurrency an executor is built with
MaxConcurrency == 1

\* the largest request timeout, in ticks of the clock
MaxTimeout == 1

\* config.DefaultTimeout, in ticks of the clock: longer than the timeout of
\* any request
DefaultTimeout == MaxTimeout + 1

\* tools.NewExecutor(config) for any MaxConcurrency, zero included
ExecutorInit ==
  /\ InitAgent
  /\ denyList = {}
  /\ askList = {}
  /\ allowList = {}
  /\ rules = <<>>
  /\ defaultMode = "auto"
  /\ InitPool /\ InitRoom /\ InitScheduler /\ InitInterval /\ InitCheck /\ InitLock
  /\ InitClose /\ InitLate
  /\ \E c \in 0..MaxConcurrency : capacity = NewExecutorCapacity(c)
  /\ semaphore = 0
  /\ calls = <<>>
  /\ batch = {}
  /\ batchPc = "idle"

\* Execute: timeout := req.Timeout; if timeout <= 0 { timeout = DefaultTimeout }
EffectiveTimeout(reqTimeout) ==
  IF reqTimeout <= 0 THEN DefaultTimeout ELSE reqTimeout

\* an Execute call that has started and waits at the select for the semaphore
NewCall(reqTimeout) ==
  [pc |-> "acquire", timeout |-> EffectiveTimeout(reqTimeout), ran |-> 0,
   ctxErr |-> "", overdue |-> FALSE, invoked |-> FALSE, success |-> FALSE, error |-> ""]

\* the ExecuteResult of a call: Success and Error; overdue keeps whether the
\* timeout had elapsed with the tool still running, invoked whether
\* req.Tool.Execute was called
Returned(c, success, error) ==
  [pc |-> "returned", timeout |-> 0, ran |-> 0, ctxErr |-> "",
   overdue |-> (c.ctxErr = "deadline exceeded"), invoked |-> c.invoked,
   success |-> success, error |-> error]

\* a caller starts Executor.Execute(ctx, req)
Execute ==
  \E t \in 0..MaxTimeout :
    /\ Len(calls) < MaxCalls
    /\ calls' = Append(calls, NewCall(t))
    /\ UNCHANGED <<capacity, semaphore, batch, batchPc, aroundExecutor>>

\* Executor.ExecuteBatch(ctx, requests): a goroutine per request runs Execute
ExecuteBatch ==
  \E n \in 1..MaxCalls, t \in 0..MaxTimeout :
    /\ batchPc = "idle"
    /\ Len(calls) + n <= MaxCalls
    /\ calls' = calls \o [i \in 1..n |-> NewCall(t)]
    /\ batch' = (Len(calls) + 1)..(Len(calls) + n)
    /\ batchPc' = "waiting"
    /\ UNCHANGED <<capacity, semaphore, aroundExecutor>>

\* ExecuteBatch: wg.Wait() returns, every result is in
ExecuteBatchReturn ==
  /\ batchPc = "waiting"
  /\ \A i \in batch : calls[i].pc = "returned"
  /\ batchPc' = "returned"
  /\ UNCHANGED <<capacity, semaphore, calls, batch, aroundExecutor>>

\* a slip: one sender more than the capacity gets through
CanSend_OneMore(n, cap) == n <= cap

\* a send on the buffered channel e.semaphore goes through when it is not full
CanSend(n, cap) == n < cap

\* Execute: case e.semaphore <- struct{}{}, then context.WithTimeout and the
\* call of req.Tool.Execute
Acquire(i) ==
  /\ calls[i].pc = "acquire"
  /\ CanSend(semaphore, capacity)
  /\ semaphore' = semaphore + 1
  /\ calls' = [calls EXCEPT ![i].pc = "running", ![i].invoked = TRUE]
  /\ UNCHANGED <<capacity, batch, batchPc, aroundExecutor>>

\* the caller's ctx is cancelled
CtxCancel(i) ==
  /\ calls[i].pc \in {"acquire", "running"}
  /\ calls[i].ctxErr = ""
  /\ calls' = [calls EXCEPT ![i].ctxErr = "canceled"]
  /\ UNCHANGED <<capacity, semaphore, batch, batchPc, aroundExecutor>>

\* Execute: case <-ctx.Done() of the select: Success false, Error ctx.Err(),
\* and nothing was sent to the semaphore
AcquireCancelled(i) ==
  /\ calls[i].pc = "acquire"
  /\ calls[i].ctxErr = "canceled"
  /\ calls' = [calls EXCEPT ![i] = Returned(@, FALSE, "canceled")]
  /\ UNCHANGED <<capacity, semaphore, batch, batchPc, aroundExecutor>>

\* the clock ticks while the tool of call i runs; at the timeout execCtx is
\* done with DeadlineExceeded unless it was cancelled before
ClockTick(i) ==
  /\ calls[i].pc = "running"
  /\ calls[i].ran < calls[i].timeout
  /\ calls' = [calls EXCEPT
                 ![i].ran = @ + 1,
                 ![i].ctxErr = IF calls[i].ran + 1 = calls[i].timeout /\ @ = ""
                               THEN "deadline exceeded" ELSE @]
  /\ UNCHANGED <<capacity, semaphore, batch, batchPc, aroundExecutor>>

\* a slip: Execute returns without taking its token back
Release_Never(n) == n

\* Execute: defer func() { <-e.semaphore }()
Release(n) == n - 1

\* Execute: req.Tool.Execute returns (output, err); the result has
\* Success = (err == nil) and Error = err, and the deferred receive frees the
\* slot. The tool returns nil, an error of its own, or, once execCtx is done,
\* execCtx.Err()
ToolReturn(i) ==
  \E e \in {"", "tool failed", calls[i].ctxErr} :
    /\ calls[i].pc = "running"
    /\ calls' = [calls EXCEPT ![i] = Returned(@, e = "", e)]
    /\ semaphore' = Release(semaphore)
    /\ UNCHANGED <<capacity, batch, batchPc, aroundExecutor>>

ExecutorNext ==
  \/ Execute
  \/ ExecuteBatch
  \/ ExecuteBatchReturn
  \/ \E i \in 1..Len(calls) : Acquire(i)
  \/ \E i \in 1..Len(calls) : CtxCancel(i)
  \/ \E i \in 1..Len(calls) : AcquireCancelled(i)
  \/ \E i \in 1..Len(calls) : ClockTick(i)
  \/ \E i \in 1..Len(calls) : ToolReturn(i)

\* one executor under concurrent Execute calls and one ExecuteBatch call
ExecutorSpec == ExecutorInit /\ [][ExecutorNext]_vars

(* ----------------------- the engine's lock a.mu ------------------------ *)

\* Agent.Send(text) from a.mu.Lock() to the call of Store.SaveMessages: the
\* message is appended and stepCount bumped, with a.mu held
SendLock ==
  /\ mu = "free"
  /\ sends < MaxSends
  /\ mu' = "send"
  /\ sends' = sends + 1
  /\ messages' = Append(messages, Message("user", <<TextBlock(sends + 1)>>))
  /\ stepCount' = stepCount + 1
  /\ UNCHANGED <<state, breakpoint, toolRecords, pendingPermissions, storeVars, events,
                 permVars, loopVars, modelCalls, accepted, passed, handed, chatVars,
                 aroundSend>>

\* Agent.Send: Store.SaveMessages returns, the goroutine is started when it
\* succeeded, and the deferred a.mu.Unlock() runs
SendReturn ==
  \E ok \in BOOLEAN :
    /\ mu = "send"
    /\ mu' = "free"
    /\ IF ok
       THEN /\ storeMessages' = messages
            /\ spawned' = spawned + 1
            /\ accepted' = accepted \cup {sends}
       ELSE UNCHANGED <<storeMessages, spawned, accepted>>
    /\ UNCHANGED <<engineVars, storeRecords, events, permVars, pc, err, streamArg,
                   toolUses, toolIdx, toolResults, saveArg, sends, modelCalls, passed,
                   handed, chatVars, aroundSend>>

\* the steps of the loop that take a.mu (for a field, in setBreakpoint or in
\* updateToolRecord) wait for it; those that take no lock do not: a.messages
\* is read for Store.SaveMessages, a.toolRecords for Store.SaveToolCallRecords
LockNext ==
  \/ SendLock
  \/ SendReturn
  \/ mu = "free" /\ ProcessMessages
  \/ mu = "free" /\ RunModelStep
  \/ mu = "free" /\ StreamEnd
  \/ mu = "free" /\ SaveAssistant
  \/ mu = "free" /\ ToolNew
  \/ mu = "free" /\ ToolLookup
  \/ mu = "free" /\ ToolExec
  \/ mu = "free" /\ AppendResults
  \/ mu = "free" /\ Finish
  \/ SaveRead
  \/ SaveMessages
  \/ SaveToolCallRecords

\* the engine with Send calls that hold a.mu while the loop runs
LockSpec == Init /\ [][LockNext]_vars

(* ----------------------------- Agent.Close ---------------------------- *)

\* number of Agent.Close calls
MaxCloses == 2

\* Agent.Close(): close(a.stopCh), which panics on a closed channel; then
\* sandbox.Dispose(), whose error is returned; then provider.Close(). No field
\* of the engine is written and nothing reads a.stopCh
Close ==
  \E disposeOk \in BOOLEAN :
    /\ Len(closeRet) < MaxCloses
    /\ IF stopCh = "closed"
       THEN /\ panicked' = TRUE
            /\ UNCHANGED <<stopCh, closeRet>>
       ELSE /\ stopCh' = "closed"
            /\ closeRet' = Append(closeRet, IF disposeOk THEN "" ELSE "dispose")
            /\ UNCHANGED panicked
    /\ UNCHANGED <<agentVars, poolVars, roomVars, schedVars, intervalVars, execVars,
                   checkVars, lockVars, lateVars>>

\* the process goes on as long as no panic has ended it
CloseNext ==
  \/ ~panicked /\ Close
  \/ ~panicked /\ Send
  \/ ~panicked /\ ProcessMessages
  \/ ~panicked /\ RunModelStep
  \/ ~panicked /\ StreamEnd
  \/ ~panicked /\ SaveRead
  \/ ~panicked /\ SaveAssistant
  \/ ~panicked /\ ToolNew
  \/ ~panicked /\ ToolLookup
  \/ ~panicked /\ ToolExec
  \/ ~panicked /\ AppendResults
  \/ ~panicked /\ SaveMessages
  \/ ~panicked /\ SaveToolCallRecords
  \/ ~panicked /\ Finish

\* the engine driven by Send, with Close calls at any moment
CloseSpec == Init /\ [][CloseNext]_vars

(* ----------------------- PermissionManager.Check ---------------------- *)

\* the decisions SetRule is called with
Decisions == {"allow", "deny", "ask"}

\* the default modes a manager is built with; "" is an options value that
\* names no mode
Modes == {"allow", "approval", "auto", ""}

\* the rule maps over the tool names
RuleMaps == UNION {[names -> Decisions] : names \in SUBSET ToolNames}

\* core.NewPermissionManager(opts) followed by SetRule calls: any lists, any
\* rules, any default mode
CheckInit ==
  /\ InitAgent
  /\ InitComponents
  /\ denyList \in SUBSET ToolNames
  /\ allowList \in SUBSET ToolNames
  /\ askList \in SUBSET ToolNames
  /\ rules \in RuleMaps
  /\ defaultMode \in Modes

\* PermissionManager.Check(ctx, call) for call.Name = name, with no change of
\* the lists, the rules or the mode while it runs
CheckCall ==
  \E name \in ToolNames :
    /\ checked' = checked \cup
         {[name |-> name,
           decision |-> Check(denyList, allowList, askList, rules, defaultMode, name)]}
    /\ UNCHANGED <<agentVars, poolVars, roomVars, schedVars, intervalVars, execVars,
                   lockVars, closeVars, lateVars>>

CheckNext == CheckCall

\* a permission manager of any configuration answering Check calls
CheckSpec == CheckInit /\ [][CheckNext]_vars

(* ---------------- Pool and Room under concurrent callers --------------- *)

\* number of Pool and Room calls the goroutines make
MaxOpCalls == 2

\* number of entries a loop over p.agents or over a targets map visits at most
MaxRounds == 1

\* one step of a method: a lock operation on Room.mu ("r") or Pool.mu ("p"),
\* a call of an engine operation, or a step that touches neither
Step(k, on) == [k |-> k, on |-> on]

\* n rounds of a loop whose body is the steps body
RECURSIVE Rounds(_, _)
Rounds(body, n) == IF n = 0 THEN <<>> ELSE body \o Rounds(body, n - 1)

\* a slip: Get returns with p.mu still read-locked
GetSteps_NoUnlock == <<Step("RLock", "p")>>

\* Pool.Get: p.mu.RLock(); defer p.mu.RUnlock(); the map lookup
GetSteps == <<Step("RLock", "p"), Step("RUnlock", "p")>>

\* the sending loops of Say and Broadcast over n targets: in every round
\* r.pool.Get, and a goroutine for Agent.Send when the pool holds the agent
RECURSIVE SendLoops(_)
SendLoops(n) ==
  IF n = 0 THEN {<<>>}
  ELSE {round \o rest : round \in {GetSteps, GetSteps \o <<Step("go", "ag.Send")>>},
                        rest \in SendLoops(n - 1)}

\* Say, Broadcast and SendTo: r.mu.Lock(); r.history = append(...); r.mu.Unlock()
RecordSteps == <<Step("Lock", "r"), Step("Unlock", "r")>>

\* the methods of the Pool and the Room the goroutines call
Methods ==
  {"Pool.Create", "Pool.Get", "Pool.Status", "Pool.Resume", "Pool.Remove", "Pool.Delete",
   "Pool.Shutdown", "Pool.ForEach", "Room.Join", "Room.Leave", "Room.Say",
   "Room.Broadcast", "Room.SendTo"}

\* the paths through a method, one per way its conditions can turn out, as the
\* lock operations and the calls made on the way
Paths(method) ==
  CASE method = "Pool.Create" ->
         { <<Step("Lock", "p"), Step("Unlock", "p")>>,
           <<Step("Lock", "p"), Step("engine", "agent.Create"), Step("Unlock", "p")>> }
    [] method = "Pool.Get" -> {GetSteps}
    [] method = "Pool.Status" ->
         { <<Step("RLock", "p"), Step("RUnlock", "p")>>,
           <<Step("RLock", "p"), Step("RUnlock", "p"), Step("engine", "ag.Status")>> }
    [] method = "Pool.Resume" ->
         { <<Step("Lock", "p"), Step("Unlock", "p")>>,
           <<Step("Lock", "p"), Step("store", "LoadMessages"), Step("Unlock", "p")>>,
           <<Step("Lock", "p"), Step("store", "LoadMessages"),
             Step("engine", "agent.Create"), Step("Unlock", "p")>> }
    [] method \in {"Pool.Remove", "Pool.Delete"} ->
         { <<Step("Lock", "p"), Step("Unlock", "p")>>,
           <<Step("Lock", "p"), Step("engine", "ag.Close"), Step("Unlock", "p")>> }
    [] method = "Pool.Shutdown" ->
         { <<Step("Lock", "p")>> \o Rounds(<<Step("engine", "ag.Close")>>, n)
             \o <<Step("Unlock", "p")>> : n \in 0..MaxRounds }
    [] method = "Pool.ForEach" ->
         { <<Step("RLock", "p"), Step("RUnlock", "p")>> \o Rounds(<<Step("fn", "fn")>>, n) :
             n \in 0..MaxRounds }
    [] method = "Room.Join" ->
         { <<Step("Lock", "r"), Step("Unlock", "r")>>,
           <<Step("Lock", "r")>> \o GetSteps \o <<Step("Unlock", "r")>> }
    [] method = "Room.Leave" -> { <<Step("Lock", "r"), Step("Unlock", "r")>> }
    [] method = "Room.Say" ->
         { <<Step("RLock", "r"), Step("RUnlock", "r")>> }
         \cup { <<Step("RLock", "r"), Step("RUnlock", "r")>> \o RecordSteps \o loop :
                  loop \in UNION {SendLoops(n) : n \in 0..MaxRounds} }
    [] method = "Room.Broadcast" ->
         { <<Step("RLock", "r"), Step("RUnlock", "r")>> \o RecordSteps \o loop :
             loop \in UNION {SendLoops(n) : n \in 0..MaxRounds} }
    [] method = "Room.SendTo" ->
         { <<Step("RLock", "r"), Step("RUnlock", "r")>>,
           <<Step("RLock", "r"), Step("RUnlock", "r")>> \o RecordSteps \o GetSteps,
           <<Step("RLock", "r"), Step("RUnlock", "r")>> \o RecordSteps \o GetSteps
             \o <<Step("engine", "ag.Send")>> }

\* what the calls of the Pool and the Room leave alone
aroundHold == <<agentVars, poolVars, roomVars, schedVars, intervalVars, execVars,
                checkVars, lockVars, closeVars, statVars, raceVars, deliverVars>>

\* the step goroutine t is at (one that never occurs when it is in no call)
AtStep(t) ==
  IF callers[t].prog = <<>> THEN Step("", "") ELSE Head(callers[t].prog)

\* goroutine t has made its step: it returns from the method after the last one
Advanced(t) ==
  [callers EXCEPT ![t] = IF Len(@.prog) = 1
                         THEN [op |-> "", prog |-> <<>>, inside |-> FALSE]
                         ELSE [op |-> @.op, prog |-> Tail(@.prog), inside |-> FALSE]]

\* goroutine t calls a method of the Pool or the Room
BeginCall(t) ==
  \E method \in Methods :
    \E path \in Paths(method) :
      /\ callers[t].prog = <<>>
      /\ opCalls < MaxOpCalls
      /\ opCalls' = opCalls + 1
      /\ callers' = [callers EXCEPT ![t] = [op |-> method, prog |-> path,
                                             inside |-> FALSE]]
      /\ UNCHANGED <<rw, aroundHold>>

\* sync.RWMutex.Lock, first half: the writers' mutex is taken, and from then
\* on RLock calls block
MutexLockEnter(t) ==
  LET m == AtStep(t).on IN
  /\ AtStep(t).k = "Lock"
  /\ rw[m].w = 0
  /\ rw' = [rw EXCEPT ![m].w = t]
  /\ UNCHANGED <<callers, opCalls, aroundHold>>

\* sync.RWMutex.Lock, second half: the readers that hold the lock have left
MutexLock(t) ==
  LET m == AtStep(t).on IN
  /\ AtStep(t).k = "Lock"
  /\ rw[m].w = t
  /\ rw[m].readers = {}
  /\ rw' = [rw EXCEPT ![m].locked = TRUE]
  /\ callers' = Advanced(t)
  /\ UNCHANGED <<opCalls, aroundHold>>

\* sync.RWMutex.Unlock
MutexUnlock(t) ==
  LET m == AtStep(t).on IN
  /\ AtStep(t).k = "Unlock"
  /\ rw' = [rw EXCEPT ![m].w = 0, ![m].locked = FALSE]
  /\ callers' = Advanced(t)
  /\ UNCHANGED <<opCalls, aroundHold>>

\* sync.RWMutex.RLock: blocks while a Lock call is pending or holds the lock
MutexRLock(t) ==
  LET m == AtStep(t).on IN
  /\ AtStep(t).k = "RLock"
  /\ rw[m].w = 0
  /\ rw' = [rw EXCEPT ![m].readers = @ \cup {t}]
  /\ callers' = Advanced(t)
  /\ UNCHANGED <<opCalls, aroundHold>>

\* sync.RWMutex.RUnlock
MutexRUnlock(t) ==
  LET m == AtStep(t).on IN
  /\ AtStep(t).k = "RUnlock"
  /\ rw' = [rw EXCEPT ![m].readers = @ \ {t}]
  /\ callers' = Advanced(t)
  /\ UNCHANGED <<opCalls, aroundHold>>

\* the method calls an engine operation: agent.Create, Close, Status or Send
EngineCall(t) ==
  /\ AtStep(t).k = "engine"
  /\ ~callers[t].inside
  /\ callers' = [callers EXCEPT ![t].inside = TRUE]
  /\ UNCHANGED <<rw, opCalls, aroundHold>>

\* the engine operation returns
EngineReturn(t) ==
  /\ AtStep(t).k = "engine"
  /\ callers[t].inside
  /\ callers' = Advanced(t)
  /\ UNCHANGED <<rw, opCalls, aroundHold>>

\* a step that takes no lock of the Pool or the Room: Store.LoadMessages
\* returns, ForEach's fn returns, a goroutine is started for Agent.Send
OtherStep(t) ==
  /\ AtStep(t).k \in {"store", "fn", "go"}
  /\ callers' = Advanced(t)
  /\ UNCHANGED <<rw, opCalls, aroundHold>>

\* a goroutine inside a method goes on when it can
CallerStep(t) ==
  \/ MutexLockEnter(t)
  \/ MutexLock(t)
  \/ MutexUnlock(t)
  \/ MutexRLock(t)
  \/ MutexRUnlock(t)
  \/ EngineCall(t)
  \/ EngineReturn(t)
  \/ OtherStep(t)

HoldNext ==
  \/ \E t \in Callers : BeginCall(t)
  \/ \E t \in Callers : MutexLockEnter(t)
  \/ \E t \in Callers : MutexLock(t)
  \/ \E t \in Callers : MutexUnlock(t)
  \/ \E t \in Callers : MutexRLock(t)
  \/ \E t \in Callers : MutexRUnlock(t)
  \/ \E t \in Callers : EngineCall(t)
  \/ \E t \in Callers : EngineReturn(t)
  \/ \E t \in Callers : OtherStep(t)

\* goroutines calling the Pool and the Room at the same time. A goroutine that
\* can go on does so: engine calls, Store calls and callbacks return, and a
\* lock that stays free is taken
HoldSpec ==
  /\ Init
  /\ [][HoldNext]_vars
  /\ \A t \in Callers : WF_vars(CallerStep(t))

(* ------------- PermissionManager.Check among other callers ------------ *)

\* number of Check calls
MaxChecks == 2

\* number of calls that change the lists, the rules, the mode or the counters
MaxManagerCalls == 2

\* the decisions SetRule is called with: PermissionDecision is a string type,
\* "" its zero value
RuleDecisions == Decisions \cup {""}

\* core.NewPermissionManager(opts): any lists and any default mode in opts
ManagerInit ==
  /\ InitAgent
  /\ InitComponents
  /\ denyList \in SUBSET ToolNames
  /\ allowList \in SUBSET ToolNames
  /\ askList \in SUBSET ToolNames
  /\ rules = <<>>
  /\ defaultMode \in Modes

\* what the PermissionManager leaves alone
aroundManager == <<engineVars, storeVars, events, loopVars, histVars, chatVars, poolVars,
                   roomVars, schedVars, intervalVars, execVars, checkVars, lockVars,
                   closeVars, holdVars, raceVars, deliverVars>>

\* what the lists, rules and mode dictate for the tool of the Check call under
\* way, after a change of them
Dictated(deny, allow, ask, rls, mode) ==
  IF chk.pc \in {"idle", "done"} THEN chk
  ELSE [chk EXCEPT !.dictated = @ \cup {Check(deny, allow, ask, rls, mode, chk.name)}]

\* Check, first critical section: pm.stats.TotalChecks++
CheckTotal ==
  \E name \in ToolNames :
    /\ chk.pc \in {"idle", "done"}
    /\ checkCalls < MaxChecks
    /\ checkCalls' = checkCalls + 1
    /\ stats' = [stats EXCEPT !.total = @ + 1]
    /\ chk' = [pc |-> "deny", name |-> name, decision |-> "",
               dictated |-> {Check(denyList, allowList, askList, rules, defaultMode,
                                   name)}]
    /\ UNCHANGED <<permVars, mgrCalls, aroundManager>>

\* Check, 1: pm.denyList[toolName] under RLock
CheckDeny ==
  /\ chk.pc = "deny"
  /\ chk' = IF chk.name \in denyList
            THEN [chk EXCEPT !.pc = "count", !.decision = "deny"]
            ELSE [chk EXCEPT !.pc = "allow"]
  /\ UNCHANGED <<permVars, stats, checkCalls, mgrCalls, aroundManager>>

\* Check, 2: pm.allowList[toolName] under RLock
CheckAllow ==
  /\ chk.pc = "allow"
  /\ chk' = IF chk.name \in allowList
            THEN [chk EXCEPT !.pc = "count", !.decision = "allow"]
            ELSE [chk EXCEPT !.pc = "ask"]
  /\ UNCHANGED <<permVars, stats, checkCalls, mgrCalls, aroundManager>>

\* Check, 3: pm.askList[toolName] under RLock
CheckAsk ==
  /\ chk.pc = "ask"
  /\ chk' = IF chk.name \in askList
            THEN [chk EXCEPT !.pc = "count", !.decision = "ask"]
            ELSE [chk EXCEPT !.pc = "rule"]
  /\ UNCHANGED <<permVars, stats, checkCalls, mgrCalls, aroundManager>>

\* Check, 4: pm.rules[toolName] under RLock
CheckRule ==
  /\ chk.pc = "rule"
  /\ chk' = IF chk.name \in DOMAIN rules
            THEN [chk EXCEPT !.pc = "count", !.decision = rules[chk.name]]
            ELSE [chk EXCEPT !.pc = "mode"]
  /\ UNCHANGED <<permVars, stats, checkCalls, mgrCalls, aroundManager>>

\* Check, 5: mode := pm.defaultMode under RLock; the switch over it gives ask
\* for approval and allow for allow, auto and anything else
CheckMode ==
  /\ chk.pc = "mode"
  /\ chk' = [chk EXCEPT !.pc = "count",
                        !.decision = IF defaultMode = "approval" THEN "ask" ELSE "allow"]
  /\ UNCHANGED <<permVars, stats, checkCalls, mgrCalls, aroundManager>>

\* the counter Check adds to for a decision: the switch over rule.Decision has
\* no default case
Counted(st, decision) ==
  CASE decision = "allow" -> [st EXCEPT !.allowed = @ + 1]
    [] decision = "deny" -> [st EXCEPT !.denied = @ + 1]
    [] decision = "ask" -> [st EXCEPT !.approval = @ + 1]
    [] OTHER -> st

\* Check, last critical section: the counter of the decision, and the return
CheckCount ==
  /\ chk.pc = "count"
  /\ stats' = Counted(stats, chk.decision)
  /\ chk' = [chk EXCEPT !.pc = "done"]
  /\ UNCHANGED <<permVars, checkCalls, mgrCalls, aroundManager>>

\* AddToAllowList(toolName) under pm.mu
AddToAllowList ==
  \E name \in ToolNames :
    /\ mgrCalls < MaxManagerCalls
    /\ mgrCalls' = mgrCalls + 1
    /\ allowList' = allowList \cup {name}
    /\ denyList' = denyList \ {name}
    /\ askList' = askList \ {name}
    /\ chk' = Dictated(denyList', allowList', askList', rules, defaultMode)
    /\ UNCHANGED <<rules, defaultMode, stats, checkCalls, aroundManager>>

\* AddToDenyList(toolName) under pm.mu
AddToDenyList ==
  \E name \in ToolNames :
    /\ mgrCalls < MaxManagerCalls
    /\ mgrCalls' = mgrCalls + 1
    /\ denyList' = denyList \cup {name}
    /\ allowList' = allowList \ {name}
    /\ askList' = askList \ {name}
    /\ chk' = Dictated(denyList', allowList', askList', rules, defaultMode)
    /\ UNCHANGED <<rules, defaultMode, stats, checkCalls, aroundManager>>

\* AddToAskList(toolName) under pm.mu
AddToAskList ==
  \E name \in ToolNames :
    /\ mgrCalls < MaxManagerCalls
    /\ mgrCalls' = mgrCalls + 1
    /\ askList' = askList \cup {name}
    /\ allowList' = allowList \ {name}
    /\ denyList' = denyList \ {name}
    /\ chk' = Dictated(denyList', allowList', askList', rules, defaultMode)
    /\ UNCHANGED <<rules, defaultMode, stats, checkCalls, aroundManager>>

\* RemoveFromLists(toolName) under pm.mu
RemoveFromLists ==
  \E name \in ToolNames :
    /\ mgrCalls < MaxManagerCalls
    /\ mgrCalls' = mgrCalls + 1
    /\ allowList' = allowList \ {name}
    /\ denyList' = denyList \ {name}
    /\ askList' = askList \ {name}
    /\ chk' = Dictated(denyList', allowList', askList', rules, defaultMode)
    /\ UNCHANGED <<rules, defaultMode, stats, checkCalls, aroundManager>>

\* SetRule(toolName, decision, reason) under pm.mu
SetRule ==
  \E name \in ToolNames, decision \in RuleDecisions :
    /\ mgrCalls < MaxManagerCalls
    /\ mgrCalls' = mgrCalls + 1
    /\ rules' = (name :> decision) @@ rules
    /\ chk' = Dictated(denyList, allowList, askList, rules', defaultMode)
    /\ UNCHANGED <<denyList, allowList, askList, defaultMode, stats, checkCalls,
                   aroundManager>>

\* RemoveRule(toolName) under pm.mu
RemoveRule ==
  \E name \in ToolNames :
    /\ mgrCalls < MaxManagerCalls
    /\ mgrCalls' = mgrCalls + 1
    /\ rules' = [n \in DOMAIN rules \ {name} |-> rules[n]]
    /\ chk' = Dictated(denyList, allowList, askList, rules', defaultMode)
    /\ UNCHANGED <<denyList, allowList, askList, defaultMode, stats, checkCalls,
                   aroundManager>>

\* SetDefaultMode(mode) under pm.mu
SetDefaultMode ==
  \E mode \in Modes :
    /\ mgrCalls < MaxManagerCalls
    /\ mgrCalls' = mgrCalls + 1
    /\ defaultMode' = mode
    /\ chk' = Dictated(denyList, allowList, askList, rules, mode)
    /\ UNCHANGED <<denyList, allowList, askList, rules, stats, checkCalls, aroundManager>>

\* ClearStats() under pm.mu: pm.stats = PermissionStats{}
ClearStats ==
  /\ mgrCalls < MaxManagerCalls
  /\ mgrCalls' = mgrCalls + 1
  /\ stats' = NoStats
  /\ UNCHANGED <<permVars, chk, checkCalls, aroundManager>>

ManagerNext ==
  \/ CheckTotal
  \/ CheckDeny
  \/ CheckAllow
  \/ CheckAsk
  \/ CheckRule
  \/ CheckMode
  \/ CheckCount
  \/ AddToAllowList
  \/ AddToDenyList
  \/ AddToAskList
  \/ RemoveFromLists
  \/ SetRule
  \/ RemoveRule
  \/ SetDefaultMode
  \/ ClearStats

\* a permission manager answering Check calls, one at a time, while other
\* goroutines change its lists, rules, mode and counters: every critical
\* section of pm.mu is one step
ManagerSpec == ManagerInit /\ [][ManagerNext]_vars

(* ------------------- NotifyStep calls that overlap --------------------- *)

\* number of NotifyStep calls
MaxNotifies == 2

\* what the overlapping NotifyStep calls leave alone
aroundNotify == <<stepListeners, handles, listenHist, agentVars, poolVars, roomVars,
                  intervalVars, execVars, checkVars, lockVars, closeVars, holdVars,
                  statVars, deliverVars>>

\* NotifyStep(stepCount) by goroutine g, the part under s.mu.RLock: the
\* listeners and the task pointers are copied (no listener is registered here)
NotifyCopy(g) ==
  \E step \in 1..MaxSteps :
    /\ notifiers[g].pc = "idle"
    /\ notifyCalls < MaxNotifies
    /\ notifyCalls' = notifyCalls + 1
    /\ lastStep' = step
    /\ sequential' = (sequential /\ step = notifyCalls + 1
                        /\ \A h \in Callers : notifiers[h].pc = "idle")
    /\ notifiers' = [notifiers EXCEPT ![g] =
                       IF DOMAIN stepTasks = {} THEN NoNotify
                       ELSE [pc |-> "eval", step |-> step, tasks |-> DOMAIN stepTasks,
                             task |-> 0, from |-> 0]]
    /\ UNCHANGED <<stepTasks, taskHist, dispatched, aroundNotify>>

\* NotifyStep, one round of the loop over tasks up to the test: LastTriggered
\* of the next task is read with no lock held and compared
NotifyEval(g) ==
  \E id \in notifiers[g].tasks :
    LET rest == notifiers[g].tasks \ {id}
        last == stepTasks[id].lastTriggered
    IN
    /\ notifiers[g].pc = "eval"
    /\ notifiers' = [notifiers EXCEPT ![g] =
                       IF ShouldTrigger(notifiers[g].step, last, stepTasks[id].every)
                       THEN [@ EXCEPT !.pc = "mark", !.tasks = rest, !.task = id,
                                      !.from = last]
                       ELSE IF rest = {} THEN NoNotify
                       ELSE [@ EXCEPT !.tasks = rest]]
    /\ UNCHANGED <<stepTasks, taskHist, notifyCalls, lastStep, sequential, dispatched,
                   aroundNotify>>

\* NotifyStep, the rest of the round for a task that should trigger:
\* LastTriggered is set under s.mu.Lock and the goroutine of the callback started
NotifyMark(g) ==
  LET n == notifiers[g] IN
  /\ n.pc = "mark"
  /\ stepTasks' = [stepTasks EXCEPT ![n.task].lastTriggered = n.step]
  /\ taskHist' = [taskHist EXCEPT ![n.task].steps = Append(@, n.step)]
  /\ dispatched' = Append(dispatched, [task |-> n.task, step |-> n.step,
                                       from |-> n.from])
  /\ notifiers' = [notifiers EXCEPT ![g] =
                     IF n.tasks = {} THEN NoNotify
                     ELSE [n EXCEPT !.pc = "eval", !.task = 0, !.from = 0]]
  /\ UNCHANGED <<notifyCalls, lastStep, sequential, aroundNotify>>

\* EverySteps among the NotifyStep calls
NotifyEverySteps ==
  /\ EverySteps
  /\ UNCHANGED raceVars

NotifyNext ==
  \/ NotifyEverySteps
  \/ \E g \in Callers : NotifyCopy(g)
  \/ \E g \in Callers : NotifyEval(g)
  \/ \E g \in Callers : NotifyMark(g)

\* the scheduler's step tasks with NotifyStep called from two goroutines
NotifySpec == Init /\ [][NotifyNext]_vars

(* ---------------- Room: the messages reach the engines ----------------- *)

\* number of Say, Broadcast and SendTo calls
MaxRoomCalls == 2

\* the texts said in these calls
Notes == {<<"h", "i">>, <<"@", "b">>}

\* the sender name SendTo accepts from a non-member; Broadcast records it
System == <<"s", "y", "s", "t", "e", "m">>

\* what the room's calls and their goroutines leave alone
aroundDeliver == <<sayPc, sayFrom, sayText, sayMembers, targets, sent, agentVars,
                   poolVars, schedVars, intervalVars, execVars, checkVars, lockVars,
                   closeVars, holdVars, statVars, raceVars>>

\* the goroutines a sending loop starts for call n: one per target whose
\* agent the pool holds, in the order the loop visits the targets
Started(n, order, tgts, text) ==
  SelectSeq([i \in 1..Len(order) |->
               [call |-> n, agentID |-> tgts[order[i]],
                engine |-> IF tgts[order[i]] \in DOMAIN agents
                           THEN agents[tgts[order[i]]] ELSE 0,
                text |-> text]],
            LAMBDA g : g.engine # 0)

\* the orders in which a range over the map tgts can visit its keys
Orders(tgts) ==
  {order \in [1..Cardinality(DOMAIN tgts) -> DOMAIN tgts] :
     \A i, j \in DOMAIN order : i # j => order[i] # order[j]}

\* Agent.Send(text) run for a room message: the message is appended to the
\* engine's history (and stays there when the save fails)
Appended(engine, n, text) ==
  IF engine \in DOMAIN delivered
  THEN [delivered EXCEPT ![engine] = Append(@, [call |-> n, text |-> text])]
  ELSE (engine :> <<[call |-> n, text |-> text]>>) @@ delivered

\* Room.Say(ctx, from, text), called with no other Say, Broadcast or SendTo
\* under way: an error for a sender that is no member; else the message is
\* recorded and a goroutine started for every target the pool holds
SayCall ==
  \E from \in MemberNames, text \in Notes :
    LET tgts == SayTargets(members, from, extractMentions(text)) IN
    /\ sendTo.pc \in {"idle", "returned"}
    /\ roomCalls < MaxRoomCalls
    /\ roomCalls' = roomCalls + 1
    /\ IF from \notin DOMAIN members
       THEN UNCHANGED <<history, goroutines>>
       ELSE /\ history' = Append(history, RoomMessage(from, extractMentions(text), text))
            /\ \E order \in Orders(tgts) :
                 goroutines' = goroutines \o Started(roomCalls + 1, order, tgts,
                                                     FormattedText(from, text))
    /\ UNCHANGED <<members, sendTo, delivered, aroundDeliver>>

\* Room.Broadcast(ctx, text): the message is recorded as from "system" and a
\* goroutine started for every member the pool holds, with the text as it is
BroadcastCall ==
  \E text \in Notes :
    /\ sendTo.pc \in {"idle", "returned"}
    /\ roomCalls < MaxRoomCalls
    /\ roomCalls' = roomCalls + 1
    /\ history' = Append(history, RoomMessage(System, <<>>, text))
    /\ \E order \in Orders(members) :
         goroutines' = goroutines \o Started(roomCalls + 1, order, members, text)
    /\ UNCHANGED <<members, sendTo, delivered, aroundDeliver>>

\* a goroutine started by Say or Broadcast runs: agent.Send(ctx, txt)
GoSend ==
  \E i \in 1..Len(goroutines) :
    /\ delivered' = Appended(goroutines[i].engine, goroutines[i].call, goroutines[i].text)
    /\ goroutines' = SubSeq(goroutines, 1, i - 1)
                       \o SubSeq(goroutines, i + 1, Len(goroutines))
    /\ UNCHANGED <<members, history, sendTo, roomCalls, aroundDeliver>>

\* Room.SendTo(ctx, from, to, text), the part under r.mu.RLock: the sender
\* and the recipient are looked up
SendToCheck ==
  \E from \in MemberNames \cup {System}, to \in MemberNames, text \in Notes :
    /\ sendTo.pc \in {"idle", "returned"}
    /\ roomCalls < MaxRoomCalls
    /\ roomCalls' = roomCalls + 1
    /\ sendTo' =
         IF from \notin DOMAIN members /\ from # System
         THEN [pc |-> "returned", from |-> from, to |-> to, agentID |-> "",
               text |-> text, before |-> history, after |-> history,
               err |-> "sender is not a member"]
         ELSE IF to \notin DOMAIN members
         THEN [pc |-> "returned", from |-> from, to |-> to, agentID |-> "",
               text |-> text, before |-> history, after |-> history,
               err |-> "recipient not found"]
         ELSE [pc |-> "record", from |-> from, to |-> to, agentID |-> members[to],
               text |-> text, before |-> history, after |-> <<>>, err |-> ""]
    /\ UNCHANGED <<members, history, goroutines, delivered, aroundDeliver>>

\* Room.SendTo, the part under r.mu.Lock: the message is appended to the history
SendToRecord ==
  /\ sendTo.pc = "record"
  /\ history' = Append(history, RoomMessage(sendTo.from, <<sendTo.to>>, sendTo.text))
  /\ sendTo' = [sendTo EXCEPT !.pc = "send"]
  /\ UNCHANGED <<members, goroutines, delivered, roomCalls, aroundDeliver>>

\* Room.SendTo, the rest: r.pool.Get(agentID), an error when the pool does not
\* hold the agent, else the result of ag.Send(ctx, formattedText); saved is
\* whether its Store.SaveMessages succeeds
SendToSend ==
  \E saved \in BOOLEAN :
    /\ sendTo.pc = "send"
    /\ IF sendTo.agentID \notin DOMAIN agents
       THEN /\ sendTo' = [sendTo EXCEPT !.pc = "returned", !.after = history,
                                        !.err = "agent not found for member"]
            /\ UNCHANGED delivered
       ELSE /\ sendTo' = [sendTo EXCEPT !.pc = "returned", !.after = history,
                                        !.err = IF saved THEN "" ELSE "save messages"]
            /\ delivered' = Appended(agents[sendTo.agentID], roomCalls,
                                     FormattedText(sendTo.from, sendTo.text))
    /\ UNCHANGED <<members, history, goroutines, roomCalls, aroundDeliver>>

\* a room over a pool that holds the agents "a" and "b", after Join("a", "a")
\* and Join("b", "b")
DeliverInit ==
  /\ InitAgent
  /\ denyList = {}
  /\ askList = {}
  /\ allowList = {}
  /\ rules = <<>>
  /\ defaultMode = "auto"
  /\ agents = ("a" :> 1) @@ ("b" :> 2)
  /\ created = 2
  /\ closed = {}
  /\ poolPanic = FALSE
  /\ storeInfo = {"a", "b"}
  /\ storeMsgs = {}
  /\ poolRet = PoolReturn("create", "b", "", 2)
  /\ poolCalls = 2
  /\ members = (<<"a">> :> "a") @@ (<<"b">> :> "b")
  /\ history = <<>>
  /\ sayPc = "idle"
  /\ sayFrom = <<>>
  /\ sayText = <<>>
  /\ sayMembers = {}
  /\ targets = <<>>
  /\ sent = <<>>
  /\ InitScheduler
  /\ InitMore

DeliverNext ==
  \/ PoolRemove
  \/ SayCall
  \/ BroadcastCall
  \/ GoSend
  \/ SendToCheck
  \/ SendToRecord
  \/ SendToSend

\* a room of two members whose Say, Broadcast and SendTo calls are made one
\* after another, with Pool.Remove and the sending goroutines in between
DeliverSpec == DeliverInit /\ [][DeliverNext]_vars

(* ------------------------ vocabulary of the claims --------------------- *)

\* no processMessages goroutine is running or waiting to run
Quiescent == spawned = 0 /\ pc = "idle"

\* no MonitorError has been emitted: no Stream call and no save of the loop failed
NoErrorEvent == \A k \in 1..Len(events) : events[k].type # "error"

Range(f) == {f[x] : x \in DOMAIN f}

IdsOf(blocks) == [i \in 1..Len(blocks) |-> blocks[i].id]

\* the terminal states of section 4.1 of the specification
TerminalStates == {"COMPLETED", "FAILED", "DENIED", "SEALED"}

IsToolResultMsg(m) ==
  m.role = "user" /\ m.content # <<>> /\ m.content[1].type = "tool_result"

\* index of the last assistant message before position j, 0 when there is none
PrevAssistant(msgs, j) == LastAssistant(SubSeq(msgs, 1, j - 1))

AsstCount(msgs) == Cardinality({i \in 1..Len(msgs) : msgs[i].role = "assistant"})

\* position of the user message that carries text t, 0 when there is none
MsgIndex(msgs, t) ==
  IF \E i \in 1..Len(msgs) : msgs[i] = Message("user", <<TextBlock(t)>>)
  THEN CHOOSE i \in 1..Len(msgs) : msgs[i] = Message("user", <<TextBlock(t)>>)
  ELSE 0

\* lexicographic order of tool-use ids <<model call, block index>>
IdLess(a, b) == a[1] < b[1] \/ (a[1] = b[1] /\ a[2] < b[2])

ToolStartIds ==
  LET starts == SelectSeq(events, LAMBDA e : e.type = "tool:start")
  IN [i \in 1..Len(starts) |-> starts[i].id]

HasErrorResult(id) ==
  \/ \E k \in 1..Len(toolResults) : toolResults[k] = ToolResultBlock(id, TRUE)
  \/ \E j \in 1..Len(messages) : \E k \in 1..Len(messages[j].content) :
       messages[j].content[k] = ToolResultBlock(id, TRUE)

Decision(name) == Check(denyList, allowList, askList, rules, defaultMode, name)

\* the MonitorBreakpointChanged events emitted so far, in emit order
BreakpointChanges == SelectSeq(events, LAMBDA e : e.type = "breakpoint_changed")

\* the breakpoint the last MonitorBreakpointChanged event announced
AnnouncedBreakpoint(evs) ==
  LET bs == SelectSeq(evs, LAMBDA e : e.type = "breakpoint_changed")
  IN IF bs = <<>> THEN "READY" ELSE bs[Len(bs)].s2

\* the edges of section 4.1 of the specification
LegalEdges ==
  ({"PENDING"} \X {"APPROVAL_REQUIRED", "APPROVED", "FAILED", "DENIED"})
    \cup ({"APPROVAL_REQUIRED"} \X {"APPROVED", "DENIED", "FAILED"})
    \cup ({"APPROVED"} \X {"EXECUTING", "FAILED"})
    \cup ({"EXECUTING"} \X {"COMPLETED", "FAILED"})
    \cup ({"PENDING", "APPROVAL_REQUIRED", "APPROVED", "EXECUTING"} \X {"SEALED"})

(* ------------------------------ claims -------------------------------- *)

\* C1: a tool use whose name is in the deny-list is never handed to the
\* executor; its record only goes PENDING -> DENIED and an error ToolResult is
\* produced for it.
C1_DeniedNeverExecuted ==
  \A id \in DOMAIN toolRecords :
    toolRecords[id].name \in denyList =>
      /\ id \notin Range(handed)
      /\ toolRecords[id].state \in {"PENDING", "DENIED"}
      /\ toolRecords[id].state = "DENIED" => HasErrorResult(id)

\* C2: when check yields ask for a tool call, its record passes through
\* APPROVAL_REQUIRED with a ControlPermissionRequired event and a pending reply
\* handle, and reaches EXECUTING only through APPROVED.
C2_AskAwaitsApproval ==
  \A id \in DOMAIN toolRecords :
    (Decision(toolRecords[id].name) = "ask" /\ id \in Range(handed)) =>
      /\ "APPROVAL_REQUIRED" \in Range(toolRecords[id].audit)
      /\ "APPROVED" \in Range(toolRecords[id].audit)
      /\ \E k \in 1..Len(events) :
           events[k].type = "permission_required" /\ events[k].id = id

\* C3: every change of a tool-call record's state follows a legal edge; no
\* record enters EXECUTING except from APPROVED or leaves a terminal state.
C3_LegalTransitions ==
  [][\A id \in DOMAIN toolRecords :
       (id \in DOMAIN toolRecords' /\ toolRecords'[id].state # toolRecords[id].state)
         => <<toolRecords[id].state, toolRecords'[id].state>> \in LegalEdges]_vars

\* C4: once every step loop has run to its end, and no provider or Store call
\* has failed, every message accepted by Send has been in the history passed to
\* a model completion.
C4_AcceptedReachesModel == (Quiescent /\ NoErrorEvent) => accepted \subseteq passed

\* C5: a Chat that returned successfully had its own message passed to the
\* model, and took its text from an assistant message that comes after that
\* message in the history.
C5_ChatAnswersOwnMessage ==
  chatPc = "returned" =>
    /\ chatMsg \in passed
    /\ chatFrom > MsgIndex(messages, chatMsg)

\* C6: tool uses are processed one at a time in the order the model produced
\* them, and each tool-result message is the only one for its assistant message
\* and carries, in the same order, the ids of that message's ToolUse blocks.
C6_ToolResultsInOrder ==
  /\ \A j \in 1..Len(messages) :
       IsToolResultMsg(messages[j]) =>
         LET i == PrevAssistant(messages, j) IN
         /\ i > 0
         /\ \A k \in 1..Len(messages[j].content) : messages[j].content[k].type = "tool_result"
         /\ IdsOf(messages[j].content) = IdsOf(SelectBlocks(messages[i].content, "tool_use"))
         /\ \A l \in (i+1)..(j-1) : ~IsToolResultMsg(messages[l])
  /\ Len(toolResults) <= Len(toolUses)
  /\ IdsOf(toolResults) = IdsOf(SubSeq(toolUses, 1, Len(toolResults)))
  /\ \A a, b \in 1..Len(ToolStartIds) : a < b => IdLess(ToolStartIds[a], ToolStartIds[b])
  /\ Cardinality({id \in DOMAIN toolRecords :
                    toolRecords[id].state \notin TerminalStates}) <= 1

\* a tool-result message with two results has been appended
C6_Witness ==
  \E j \in 1..Len(messages) : IsToolResultMsg(messages[j]) /\ Len(messages[j].content) >= 2

\* C7: a failed tool call (unbound name, or executor failure) leaves an
\* is_error ToolResult and does not end the loop: the loop ends without an
\* error only after a completion that holds no tool use.
C7_ToolFailureContinues ==
  /\ \A id \in DOMAIN toolRecords :
       toolRecords[id].state = "FAILED" => HasErrorResult(id)
  /\ (pc = "finish" /\ err = "") => toolUses = <<>>
  /\ \A id \in DOMAIN toolRecords :
       (toolRecords[id].state = "FAILED" /\ pc = "finish" /\ id[1] = modelCalls)
         => err \in {"save messages", "save tool records"}

\* after a round in which an unbound tool and a bound tool both failed, the
\* next model completion has been requested
C7_Witness ==
  /\ pc = "streaming"
  /\ \E id1, id2 \in DOMAIN toolRecords :
       /\ id1[1] < modelCalls /\ id2[1] = id1[1]
       /\ toolRecords[id1].state = "FAILED" /\ toolRecords[id1].name \notin BoundTools
       /\ toolRecords[id2].state = "FAILED" /\ toolRecords[id2].name \in BoundTools

\* C8: when provider.Stream fails, no assistant message is appended or saved
\* for that step, MonitorError(phase=model) is emitted and the state returns to
\* READY.
C8_StreamFailure ==
  /\ []((pc = "finish" /\ err = "stream model") =>
          /\ AsstCount(messages) = AsstCount(streamArg)
          /\ AsstCount(storeMessages) <= AsstCount(streamArg))
  /\ [][(pc = "model" /\ pc' = "finish") =>
          /\ err' = "stream model"
          /\ messages' = messages
          /\ storeMessages' = storeMessages]_vars
  /\ [][(pc = "finish" /\ err = "stream model" /\ pc' = "idle") =>
          /\ state' = "READY"
          /\ Len(events') > Len(events)
          /\ events'[Len(events) + 1] = MonitorErrorEvent("model", "stream model")]_vars

\* a step loop has ended on a failed Stream call
C8_Witness ==
  /\ Quiescent
  /\ state = "READY"
  /\ messages # <<>>
  /\ AsstCount(messages) = 0
  /\ \E k \in 1..Len(events) : events[k] = MonitorErrorEvent("model", "stream model")

\* C9: a Store save failure in the step loop is surfaced as a MonitorError of
\* phase system, and the loop makes no further model call or tool execution.
C9_StoreErrorIsSystemPhase ==
  /\ \A k \in 1..Len(events) :
       (events[k].type = "error" /\ events[k].s2 \in {"save messages", "save tool records"})
         => events[k].s1 = "system"
  /\ err \in {"save messages", "save tool records"} => pc = "finish"

\* C10: outside the persisting of a step boundary, every ToolResult of the
\* stored messages has a stored tool-call record in a terminal state.
C10_StoreConsistent ==
  pc \in {"idle", "model"} =>
    \A j \in 1..Len(storeMessages) : \A k \in 1..Len(storeMessages[j].content) :
      storeMessages[j].content[k].type = "tool_result" =>
        /\ storeMessages[j].content[k].id \in DOMAIN storeRecords
        /\ storeRecords[storeMessages[j].content[k].id].state \in TerminalStates

\* C11: an engine created or resumed over a Store that holds non-terminal
\* tool-call records moves each of them to SEALED with one more audit entry
\* and emits MonitorAgentResumed: no loaded record is left non-terminal.
C11_LoadedRecordsSealed ==
  /\ \A id \in Range(StoredIds) \cap DOMAIN toolRecords :
       toolRecords[id].state \in TerminalStates
  /\ (\E id \in Range(StoredIds) \cap DOMAIN toolRecords :
        toolRecords[id].audit[Len(toolRecords[id].audit)] = "SEALED")
       => \E k \in 1..Len(events) : events[k].type = "agent_resumed"

\* C12: step_count grows by one for each completed model-then-tools round and
\* by nothing else; send by itself does not change it.
C12_StepCountCountsRounds ==
  stepCount = Cardinality({j \in 1..Len(messages) : IsToolResultMsg(messages[j])})

\* C13: every change of the breakpoint is announced by one
\* MonitorBreakpointChanged(previous, current): each event is a real change,
\* its previous is the preceding event's current (READY for the first event
\* of a new agent), and the last event's current is the breakpoint now held.
C13_BreakpointEventsChain ==
  /\ [](/\ \A k \in 1..Len(BreakpointChanges) :
             /\ BreakpointChanges[k].s1 # BreakpointChanges[k].s2
             /\ BreakpointChanges[k].s1 =
                  IF k = 1 THEN "READY" ELSE BreakpointChanges[k-1].s2
         /\ breakpoint = AnnouncedBreakpoint(events))
  /\ [][breakpoint' # breakpoint =>
          /\ Len(events') > Len(events)
          /\ SubSeq(events', 1, Len(events)) = events
          /\ \E k \in (Len(events) + 1)..Len(events') :
               /\ events'[k].type = "breakpoint_changed"
               /\ events'[k].s1 = breakpoint
               /\ \A j \in (Len(events) + 1)..(k - 1) :
                    events'[j].type # "breakpoint_changed"]_vars

\* after a step loop with a tool round has ended in STREAMING_MODEL, a second
\* step loop has set PRE_MODEL
C13_Witness ==
  /\ breakpoint = "PRE_MODEL"
  /\ \E k \in 1..Len(events) :
       events[k] = MonitorBreakpointChangedEvent("PRE_TOOL", "TOOL_EXECUTING")
  /\ \E k \in 1..Len(events) :
       events[k] = MonitorBreakpointChangedEvent("STREAMING_MODEL", "PRE_MODEL")

\* C14: each change of a record's state appends one audit entry that holds
\* the new state and the trail only grows: the record's state is the state of
\* its last audit entry and the trail starts at PENDING.
C14_AuditTrailFollowsState ==
  /\ [](\A id \in DOMAIN toolRecords :
          /\ toolRecords[id].audit # <<>>
          /\ toolRecords[id].audit[1] = "PENDING"
          /\ toolRecords[id].state = toolRecords[id].audit[Len(toolRecords[id].audit)])
  /\ [][\A id \in DOMAIN toolRecords :
          /\ id \in DOMAIN toolRecords'
          /\ IF toolRecords'[id].state # toolRecords[id].state
             THEN toolRecords'[id].audit =
                    Append(toolRecords[id].audit, toolRecords'[id].state)
             ELSE toolRecords'[id].audit = toolRecords[id].audit]_vars

\* one record has gone PENDING, EXECUTING, COMPLETED and another PENDING, FAILED
C14_Witness ==
  \E id1, id2 \in DOMAIN toolRecords :
    /\ toolRecords[id1].audit = <<"PENDING", "EXECUTING", "COMPLETED">>
    /\ toolRecords[id2].audit = <<"PENDING", "FAILED">>

\* C15: under any interleaving of create, resume, remove, delete and shutdown
\* the pool holds at most max_agents engines, and a create made while it
\* holds max_agents returns an error and leaves the map unchanged.
C15_PoolCapacity ==
  /\ [](Cardinality(DOMAIN agents) <= MaxAgents)
  /\ [][(/\ poolCalls' # poolCalls
          /\ poolRet'.op = "create"
          /\ Cardinality(DOMAIN agents) >= MaxAgents)
         => (poolRet'.err # "" /\ agents' = agents /\ created' = created)]_vars

\* a create with a new id has been turned away by a pool holding max_agents
C15_Witness ==
  /\ Cardinality(DOMAIN agents) = MaxAgents
  /\ poolRet.op = "create"
  /\ poolRet.err = "pool is full"
  /\ poolRet.id \notin DOMAIN agents

\* C16: resume(id, cfg) on a pool that holds id returns the engine registered
\* under id, creates no engine and leaves the map unchanged, also when the
\* pool is full.
C16_ResumeIdempotent ==
  [][(/\ poolCalls' # poolCalls
      /\ poolRet'.op = "resume"
      /\ poolRet'.id \in DOMAIN agents)
     => (/\ poolRet'.err = ""
         /\ poolRet'.engine = agents[poolRet'.id]
         /\ agents' = agents
         /\ created' = created)]_vars

\* a resume on a full pool has returned an engine registered before a later
\* engine was created
C16_Witness ==
  /\ Cardinality(DOMAIN agents) = MaxAgents
  /\ poolRet.op = "resume"
  /\ poolRet.err = ""
  /\ poolRet.id \in DOMAIN agents
  /\ poolRet.engine = agents[poolRet.id]
  /\ poolRet.engine < created

\* C17: after a successful delete(id) the engine is closed, id is not in the
\* pool and the Store holds no messages or tool records for id.
C17_DeleteErasesStore ==
  (poolRet.op = "delete" /\ poolRet.err = "") =>
    /\ poolRet.id \notin DOMAIN agents
    /\ poolRet.id \notin storeMsgs

\* the names that follow an @ in a text: each longest run of word characters
\* right after an @
MentionedNames(text) ==
  {SubSeq(text, i + 1, j) : <<i, j>> \in
     {ij \in (1..Len(text)) \X (1..Len(text)) :
        /\ text[ij[1]] = "@"
        /\ ij[2] > ij[1]
        /\ \A k \in (ij[1] + 1)..ij[2] : IsWordChar(text[k])
        /\ (ij[2] = Len(text) \/ ~IsWordChar(text[ij[2] + 1]))}}

\* the names say(from, text) is to reach, given the members at the call
Recipients(mem, from, text) ==
  IF MentionedNames(text) # {} THEN MentionedNames(text) \cap mem ELSE mem \ {from}

\* C18: a say(from, text) by a member sends exactly one message to each
\* mentioned name that is a member (to every member but from when the text
\* mentions nobody) and to no one else, and each text sent is
\* "[from:<from>] " followed by the original text.
C18_SayRouting ==
  sayPc = "done" =>
    /\ \A n \in Recipients(sayMembers, sayFrom, sayText) :
         Cardinality({k \in 1..Len(sent) : sent[k].to = n}) = 1
    /\ \A k \in 1..Len(sent) :
         /\ sent[k].to \in Recipients(sayMembers, sayFrom, sayText)
         /\ sent[k].text = FormattedText(sayFrom, sayText)

\* the multiples of n up to N, in increasing order
Multiples(n, N) == [k \in 1..(N \div n) |-> k * n]

\* C19: for an every_steps(n) task registered before any notification and
\* notify_step(1), ..., notify_step(N) delivered one after another, the
\* callback is dispatched floor(N/n) times, at the steps n, 2n, 3n, ...
C19_EveryStepsCount ==
  sequential =>
    \A id \in DOMAIN stepTasks :
      taskHist[id].since = 0 =>
        taskHist[id].steps = Multiples(stepTasks[id].every, notifyCalls)

\* an every_steps(3) task registered first has been dispatched at steps 3 and
\* 6 of six notifications, next to a task of another period
C19_Witness ==
  /\ sequential
  /\ notifyCalls = 6
  /\ \E id \in DOMAIN stepTasks :
       /\ stepTasks[id].every = 3
       /\ taskHist[id].since = 0
       /\ taskHist[id].steps = <<3, 6>>
  /\ \E id \in DOMAIN stepTasks : stepTasks[id].every = 2

\* C20: a listener installed by on_step (and not dropped by clear) is invoked
\* exactly once for each notify_step call made between its installation and
\* the run of its cancel handle, and for no call that starts after that.
C20_ListenerHearsEveryStep ==
  \A l \in DOMAIN listenHist :
    ~listenHist[l].cleared =>
      listenHist[l].calls =
        [k \in 1..((IF listenHist[l].cancelAt >= 0
                     THEN listenHist[l].cancelAt ELSE notifyCalls)
                   - listenHist[l].since) |-> listenHist[l].since + k]

(* C21: Shutdown stops every interval task registered before it: provided every
   callback returns, a Shutdown that was called returns, and once it has
   returned the goroutine of each of those tasks has ended and none of their
   callbacks has been invoked since. *)
C21_ShutdownStopsIntervalTasks ==
  /\ [](shutdownPc = "returned" =>
          /\ \A id \in before : ticker[id] = "done"
          /\ calledAfter = {})
  /\ (shutdownPc = "cancelled" ~> shutdownPc = "returned")

\* Shutdown has returned; at least two tasks were registered when it was
\* called, and the goroutine of each of them has ended
C21_Witness ==
  /\ shutdownPc = "returned"
  /\ Cardinality(before) >= 2
  /\ \A id \in before : ticker[id] = "done"
  /\ \E id \in before : taskStopCh[id]

\* the calls whose tool is running: they are inside req.Tool.Execute
RunningCalls == {i \in 1..Len(calls) : calls[i].pc = "running"}

(* C22: at any instant the number of calls of one executor that are inside
   req.Tool.Execute is at most the capacity the executor was built with,
   whatever mix of Execute and ExecuteBatch calls is under way. *)
C22_ExecutorBound == Cardinality(RunningCalls) <= capacity

\* as many tools run as the executor allows while another call, one of a
\* batch, waits for a slot
C22_Witness ==
  /\ Cardinality(RunningCalls) = capacity
  /\ \E i \in batch : calls[i].pc = "acquire"

(* C23: an Execute call whose tool had not returned when the timeout of the
   call (req.Timeout, or the default when that is not positive) elapsed
   returns Success = false with the timeout error. *)
C23_TimeoutFails ==
  \A i \in 1..Len(calls) :
    (calls[i].pc = "returned" /\ calls[i].overdue)
      => (~calls[i].success /\ calls[i].error = "deadline exceeded")

(* C24: with the lists, the rules and the default mode fixed, Check returns
   deny for a name of the deny-list; else allow for a name of the allow-list;
   else ask for a name of the ask-list; else the decision of the rule of the
   name when there is one; else the decision of the default mode: allow for
   allow, ask for approval, allow for auto. *)
C24_CheckOrder ==
  \A c \in checked :
    LET n == c.name
        listed == n \in denyList \cup allowList \cup askList
        ruled == listed \/ n \in DOMAIN rules
    IN
    /\ n \in denyList => c.decision = "deny"
    /\ (n \in allowList /\ n \notin denyList) => c.decision = "allow"
    /\ (n \in askList /\ n \notin denyList \cup allowList) => c.decision = "ask"
    /\ (n \in DOMAIN rules /\ ~listed) => c.decision = rules[n]
    /\ (~ruled /\ defaultMode = "allow") => c.decision = "allow"
    /\ (~ruled /\ defaultMode = "approval") => c.decision = "ask"
    /\ (~ruled /\ defaultMode = "auto") => c.decision = "allow"

\* Check has answered for a name on all three lists and with a rule, and for
\* a name that only the default mode decides
C24_Witness ==
  /\ \E c \in checked :
       /\ c.name \in denyList \cap allowList \cap askList
       /\ c.name \in DOMAIN rules
       /\ rules[c.name] = "ask"
  /\ \E c \in checked :
       /\ c.name \notin denyList \cup allowList \cup askList \cup DOMAIN rules
       /\ defaultMode = "approval"

(* C25: every access to the engine's messages, tool records, state,
   breakpoint and step count is made with a.mu held; in particular the loop
   does not read a.messages for Store.SaveMessages while a Send call holds
   a.mu and appends to it. *)
C25_NoReadDuringSend ==
  [][(pc \in {"save_asst", "save_msgs"} /\ pc' \in {"save_asst_w", "save_msgs_w"})
       => mu # "send"]_vars

\* every Send call made so far returned nil
AllSaved == Cardinality(accepted) = sends

\* the ToolUse blocks of a message
ToolUsesOf(m) == SelectBlocks(m.content, "tool_use")

(* C26: as long as no Store save fails, every assistant message of the
   history that holds ToolUse blocks and is not the last message is
   immediately followed by the user message with the ToolResult blocks of
   those tool uses, Send calls made during the tool execution included. *)
C26_ResultsFollowToolUses ==
  (NoErrorEvent /\ AllSaved) =>
    \A i \in 1..(Len(messages) - 1) :
      (messages[i].role = "assistant" /\ ToolUsesOf(messages[i]) # <<>>) =>
        /\ IsToolResultMsg(messages[i + 1])
        /\ IdsOf(messages[i + 1].content) = IdsOf(ToolUsesOf(messages[i]))

\* the MonitorStateChanged(WORKING) events: one per goroutine that passed the
\* READY check
Passes == SelectSeq(events, LAMBDA e : e = MonitorStateChangedEvent("WORKING"))

(* C27: a processMessages goroutine gets past the READY check only when no
   step loop is past it, and the state is READY exactly when none is: at most
   one step loop, so at most one model stream and one tool execution, is
   under way for the agent, however many Send calls were made. *)
C27_OneStepLoop ==
  /\ [](state = "READY" <=> pc = "idle")
  /\ [][Len(Passes') > Len(Passes) => pc = "idle"]_vars

\* two Send calls were accepted and both goroutines have run the check, one
\* of them while the other's loop had a tool executing: one pass only
C27_Witness ==
  /\ Cardinality(accepted) = 2
  /\ spawned = 0
  /\ pc = "tool_exec"
  /\ Len(Passes) = 1

(* C28: when the state is READY and no step loop is running the breakpoint is
   READY: a loop that ended, normally or with an error, has put it back. *)
C28_BreakpointBackAtReady ==
  (state = "READY" /\ pc = "idle") => breakpoint = "READY"

(* C29: a Send call that fails because Store.SaveMessages fails leaves the
   agent as it was: the message is not in a.messages, stepCount is unchanged
   and no processMessages goroutine is started. *)
C29_FailedSendChangesNothing ==
  [][(sends' = sends + 1 /\ accepted' = accepted) =>
       (messages' = messages /\ stepCount' = stepCount /\ spawned' = spawned)]_vars

(* C30: once a Close call has returned the engine calls the model no more,
   hands no further tool use to the executor, and no processMessages
   goroutine, of a later Send in particular, gets past the READY check. *)
C30_NothingAfterClose ==
  [][closeRet # <<>> =>
       /\ modelCalls' = modelCalls
       /\ handed' = handed
       /\ Len(Passes') = Len(Passes)]_vars

\* the locks goroutine t holds
Holding(t) ==
  {m \in {"r", "p"} : (rw[m].w = t /\ rw[m].locked) \/ t \in rw[m].readers}

(* C31: no Pool or Room method is inside an engine operation (create, send,
   status, close) while the goroutine that runs it holds the Pool's or the
   Room's lock. *)
C31_NoEngineCallUnderLock ==
  \A t \in Callers : callers[t].inside => Holding(t) = {}

(* C40: no interleaving of concurrent Pool and Room calls deadlocks: provided
   engine calls, Store calls and callbacks return, every call that was made
   returns. *)
C40_EveryCallReturns ==
  \A t \in Callers : (callers[t].prog # <<>>) ~> (callers[t].prog = <<>>)

\* a Join that holds Room.mu is kept waiting for Pool.mu, which a Remove holds
\* while it is inside Agent.Close, and the other lock of each is free
C40_Witness ==
  \E t \in Callers, u \in Callers :
    /\ callers[t].op = "Room.Join"
    /\ Holding(t) = {"r"}
    /\ AtStep(t) = Step("RLock", "p")
    /\ callers[u].op = "Pool.Remove"
    /\ Holding(u) = {"p"}
    /\ callers[u].inside

(* C32: no sequence of Pool operations closes the same engine twice: after a
   Remove or Delete that failed because the engine's Close returned an error,
   a later Remove, Delete or Shutdown does not close that engine again (a
   second close of its stop channel panics). *)
C32_NoDoubleClose == ~poolPanic

(* C33: Check is atomic with respect to concurrent changes of the lists, the
   rules and the mode: the decision it returns is one that they dictated at
   some instant between its call and its return. *)
C33_CheckAtomic ==
  chk.pc = "done" => chk.decision \in chk.dictated

(* C34: every Check call adds one to the total counter and one to exactly one
   of the allowed, denied and approval counters, so that whenever no Check
   call is under way total = allowed + denied + approval, whatever other
   calls of the manager (ClearStats among them) run in between and whatever
   decision SetRule stored. *)
C34_CountersAddUp ==
  chk.pc \in {"idle", "done"} =>
    stats.total = stats.allowed + stats.denied + stats.approval

(* C35: every Execute call that takes a slot of the semaphore gives it back
   on every way out, and a call whose wait for a slot is ended by the
   cancellation of its context returns Success = false without having called
   the tool and without a slot: the slots taken are those of the calls whose
   tool is running, so when no call is under way none is taken. *)
C35_PermitsReleased ==
  /\ semaphore = Cardinality(RunningCalls)
  /\ \A i \in 1..Len(calls) :
       (calls[i].pc = "returned" /\ ~calls[i].invoked)
         => (~calls[i].success /\ calls[i].error = "canceled")
  /\ (\A i \in 1..Len(calls) : calls[i].pc = "returned") => semaphore = 0

\* every call made has returned, one after its tool ran and one whose wait
\* for a slot was ended by the cancellation, and no slot is taken
C35_Witness ==
  /\ semaphore = 0
  /\ \A i \in 1..Len(calls) : calls[i].pc = "returned"
  /\ \E i \in 1..Len(calls) : calls[i].invoked /\ calls[i].success
  /\ \E i \in 1..Len(calls) : ~calls[i].invoked /\ calls[i].error = "canceled"

\* the listeners that are in the list NotifyStep copies
ActiveListeners ==
  {stepListeners[i] : i \in {j \in 1..Len(stepListeners) : Listening(stepListeners[j])}}

(* C36: a cancel function returned by OnStep disables only the listener it was
   returned for, also when it runs after Clear and further OnStep calls: a
   listener that Clear has not dropped and whose own cancel function has not
   run is in the list. *)
C36_CancelHitsOwnListener ==
  \A l \in DOMAIN handles :
    (~handles[l].cancelled /\ ~listenHist[l].cleared) => l \in ActiveListeners

(* C37: when NotifyStep calls overlap, a step task is still triggered at most
   once per advance of its every steps: no two callbacks of a task are
   started from the same LastTriggered value. *)
C37_OneDispatchPerAdvance ==
  \A i \in 1..Len(dispatched), j \in 1..Len(dispatched) :
    (i # j /\ dispatched[i].task = dispatched[j].task)
      => dispatched[i].from # dispatched[j].from

(* C38: a SendTo call that returns an error for an unknown sender, an unknown
   recipient or a recipient whose engine the pool does not hold leaves the
   room history as it was when the call was made. *)
C38_FailedSendToKeepsHistory ==
  (/\ sendTo.pc = "returned"
   /\ sendTo.err \in {"sender is not a member", "recipient not found",
                      "agent not found for member"})
    => sendTo.after = sendTo.before

(* C39: the messages that Say and Broadcast calls made one after another
   address to one engine reach that engine's message history in the order of
   the calls. *)
C39_DeliveredInCallOrder ==
  \A e \in DOMAIN delivered :
    \A i \in 1..Len(delivered[e]), j \in 1..Len(delivered[e]) :
      i < j => delivered[e][i].call <= delivered[e][j].call

====
